---- MODULE Spec2Model ----
(***************************************************************************)
(* Model of educe's document vectorizers:                                  *)
(*   educe/rst_dt/learning/doc_vectorizer.py  (DocumentCountVectorizer,    *)
(*                                             DocumentLabelExtractor)     *)
(* A vectorizer object is the state; fit, fit_transform and transform      *)
(* are the operations.  fit_transform and transform are Python generator   *)
(* functions: a call only creates a generator, and the body runs when the  *)
(* caller requests rows with next().  The vectorizer, the label extractor  *)
(* and the one-hot encoding of a single pair each have their own           *)
(* specification; the objects share no state.                              *)
(***************************************************************************)
EXTENDS Integers, Sequences, FiniteSets, Bags, TLC

----------------------------------------------------------------------------
(* Bounds of the model *)

\* longest corpus (number of documents) handed to one call
MaxDocs == 2
\* number of calls (fit / fit_transform / transform) made on the vectorizer
MaxCalls == 2
\* most EDU pairs the instance generator yields for one document
MaxPairs == 3
\* most feature vectors handed to one call of a KeyGroupVectorizer
MaxVectors == 2

----------------------------------------------------------------------------
(* Feature values: numeric, byte string, unicode string, tuple of strings *)

Num(n) == [kind |-> "num", num |-> n, str |-> "", tup |-> <<>>]
Str(s) == [kind |-> "str", num |-> 0, str |-> s, tup |-> <<>>]
\* a unicode string is kept as its sequence of characters
Uni(cs) == [kind |-> "unicode", num |-> 0, str |-> "", tup |-> cs]
Tup(t) == [kind |-> "tuple", num |-> 0, str |-> "", tup |-> t]

\* the non-breaking space u'\xa0'
NBSP == "\\xa0"

RECURSIVE Join(_, _)
\* ''.join(cs[i:])
Join(cs, i) == IF i > Len(cs) THEN "" ELSE cs[i] \o Join(cs, i + 1)

RECURSIVE ReprItems(_, _)
ReprItems(t, i) ==
    IF i > Len(t) THEN ""
    ELSE (IF i > 1 THEN ", " ELSE "") \o "'" \o t[i] \o "'" \o ReprItems(t, i + 1)

\* str(v) of a tuple of strings: "('a', 'b')", "('a',)", "()"
TupleStr(t) ==
    "(" \o ReprItems(t, 1) \o (IF Len(t) = 1 THEN "," ELSE "") \o ")"

\* v.replace(u'\xa0', u' ').encode('utf-8')
ReplaceNbsp(cs) ==
    Join([i \in 1..Len(cs) |-> IF cs[i] = NBSP THEN " " ELSE cs[i]], 1)

----------------------------------------------------------------------------
(* Python dicts as functions from keys to values *)

Keys(s) == {s[i][1] : i \in DOMAIN s}

\* dict(s) of a sequence of (key, value) pairs: the last pair of a key wins
dict(s) ==
    [k \in Keys(s) |->
        LET last == CHOOSE i \in DOMAIN s :
                        /\ s[i][1] = k
                        /\ \A j \in DOMAIN s : s[j][1] = k => j <= i
        IN  s[last][2]]

\* d.update(s)
update(d, s) ==
    [k \in DOMAIN d \cup Keys(s) |-> IF k \in Keys(s) THEN dict(s)[k] ELSE d[k]]

\* dict(re_emit(d.items(), suff))
re_emit(d, suff) ==
    [k2 \in {k \o suff : k \in DOMAIN d} |->
        d[CHOOSE k \in DOMAIN d : k \o suff = k2]]

\* a Counter read at a key it may not hold
CounterGet(c, k) == IF k \in DOMAIN c THEN c[k] ELSE 0

RECURSIVE SumLast(_)
\* sum of the last components of a set of tuples
SumLast(S) ==
    IF S = {} THEN 0
    ELSE LET x == CHOOSE x \in S : TRUE IN x[Len(x)] + SumLast(S \ {x})

\* the permutations of a finite set, as sequences
Perms(S) ==
    {s \in [1..Cardinality(S) -> S] :
        \A i, j \in 1..Cardinality(S) : s[i] = s[j] => i = j}

----------------------------------------------------------------------------
(* One-hot encoding of one (name, value) pair *)

\* OneHotName without the branch for tuples
OneHotNameTupleUnchanged(f, v, sep) ==
    CASE v.kind = "str"     -> f \o sep \o v.str
      [] v.kind = "unicode" -> f \o sep \o ReplaceNbsp(v.tup)
      [] OTHER              -> f

OneHotName(f, v, sep) ==
    CASE v.kind = "tuple"   -> f \o sep \o TupleStr(v.tup)
      [] v.kind = "str"     -> f \o sep \o v.str
      [] v.kind = "unicode" -> f \o sep \o ReplaceNbsp(v.tup)
      [] OTHER              -> f

OneHotValue(v) == IF v.kind = "num" THEN v.num ELSE 1

----------------------------------------------------------------------------
(* Documents.  A document is what the external collaborators make of it:   *)
(* the instance generator's EDU pairs, and for every EDU and EDU pair the  *)
(* (name, value) sequences of the feature set's extractors.                *)

EDUs == {1, 2, 3}
NoFeats == [p \in EDUs \X EDUs |-> <<>>]

\* two instances, with the raw pair features [("len", 3), ("pos", "NN")] and
\* [("len", 5), ("pos", "NN")]
DocLenPos ==
    [edu_pairs |-> << <<1, 2>>, <<2, 1>> >>,
     sing |-> [e \in EDUs |-> <<>>],
     pair |-> [p \in EDUs \X EDUs |->
                  IF p = <<1, 2>> THEN << <<"len", Num(3)>>, <<"pos", Str("NN")>> >>
                  ELSE << <<"len", Num(5)>>, <<"pos", Str("NN")>> >>],
     prod |-> NoFeats,
     comb |-> NoFeats]

\* two instances sharing EDU 2: the first has an EDU that reports ("rare", "X")
\* twice and the pair feature ("pos", "NN"), the second has no feature
DocRare ==
    [edu_pairs |-> << <<1, 2>>, <<2, 3>> >>,
     sing |-> [e \in EDUs |->
                  IF e = 1 THEN << <<"rare", Str("X")>>, <<"rare", Str("X")>> >>
                  ELSE <<>>],
     pair |-> [p \in EDUs \X EDUs |->
                  IF p = <<1, 2>> THEN << <<"pos", Str("NN")>> >> ELSE <<>>],
     prod |-> NoFeats,
     comb |-> NoFeats]

\* the documents, by name; a corpus lists the names of its documents
Documents == [LenPos |-> DocLenPos, Rare |-> DocRare]
Docs == DOMAIN Documents
DocAt(corpus, d) == Documents[corpus[d]]

\* the corpora handed to the calls: lists of at most MaxDocs documents
Corpora == UNION {[1..n -> Docs] : n \in 0..MaxDocs}

----------------------------------------------------------------------------
(* DocumentCountVectorizer._extract_feature_vectors *)

\* separator for one-hot-encoding (constructor default)
separator == "="

\* feat_dict of one EDU pair, after the suffixes are added, as the set of
\* its (group, name, value) entries
FeatDict(doc, p) ==
    LET EDU1 == dict(doc.sing[p[1]])
        EDU2 == dict(doc.sing[p[2]])
        pair0 == dict(doc.pair[p])
        pair1 == update(pair0, doc.prod[p])
        pair2 == update(pair1, doc.comb[p])
        fd == [EDU1 |-> re_emit(EDU1, "_EDU1"),
               EDU2 |-> re_emit(EDU2, "_EDU2"),
               pair |-> pair2]
    IN  {<<g, f, fd[g][f]>> : g \in {"EDU1"}, f \in DOMAIN fd["EDU1"]}
        \cup {<<g, f, fd[g][f]>> : g \in {"EDU2"}, f \in DOMAIN fd["EDU2"]}
        \cup {<<g, f, fd[g][f]>> : g \in {"pair"}, f \in DOMAIN fd["pair"]}

\* oh_feats: every entry one-hot encoded, as (group, name, one-hot name, value)
OhFeats(doc, p) ==
    {<<x[1], x[2], OneHotName(x[2], x[3], separator), OneHotValue(x[3])>> :
        x \in FeatDict(doc, p)}

\* feat_cnt: the Counter summing the values of entries with the same name
FeatCnt(doc, p) ==
    LET oh == OhFeats(doc, p)
    IN  [fn \in {x[3] : x \in oh} |-> SumLast({x \in oh : x[3] = fn})]

\* the one-hot feature names of a document
DocNames(doc) ==
    UNION {DOMAIN FeatCnt(doc, doc.edu_pairs[i]) : i \in DOMAIN doc.edu_pairs}

\* feat_cnt.items(): the entries in the dict's iteration order, which the
\* language leaves open; ord lists the names in the order this run iterates them
Items(cnt, ord) ==
    LET ks == SelectSeq(ord, LAMBDA fn : fn \in DOMAIN cnt)
    IN  [i \in 1..Len(ks) |-> <<ks[i], cnt[ks[i]]>>]

\* the iteration orders a run may show for the features of a document
Orders(doc) == Perms(DocNames(doc))

\* feat_vecs: one feature vector per EDU pair, in generator order
ExtractFeatureVectors(doc, ord) ==
    [i \in 1..Len(doc.edu_pairs) |-> Items(FeatCnt(doc, doc.edu_pairs[i]), ord)]

\* the same feature vectors with the order of their entries left out: the
\* Counter of every EDU pair
FeatCnts(doc) ==
    [i \in 1..Len(doc.edu_pairs) |-> FeatCnt(doc, doc.edu_pairs[i])]

----------------------------------------------------------------------------
(* Document-frequency thresholds: an integral count, or a float proportion *)
(* of the corpus size, kept as an exact fraction num/den                   *)

Integral(n) == [integral |-> TRUE, num |-> n, den |-> 1]
Float(n, d) == [integral |-> FALSE, num |-> n, den |-> d]

\* DocCount leaving a proportion as it is, whatever the corpus size
DocCountUnscaled(x, n_doc) == x

\* max_df if isinstance(max_df, numbers.Integral) else max_df * n_doc
DocCount(x, n_doc) ==
    IF x.integral THEN x ELSE Float(x.num * n_doc, x.den)

\* a < b
Less(a, b) == a.num * b.den < b.num * a.den
\* df <= high, df >= low
AtMost(df, high) == df * high.den <= high.num
AtLeast(df, low) == df * low.den >= low.num

----------------------------------------------------------------------------
(* DocumentCountVectorizer._vocab_df *)

RECURSIVE Flatten(_, _)
\* [fn for feat_vec in feat_vecs[i:] for fn, fv in feat_vec]
Flatten(feat_vecs, i) ==
    IF i > Len(feat_vecs) THEN <<>>
    ELSE [j \in 1..Len(feat_vecs[i]) |-> feat_vecs[i][j][1]] \o Flatten(feat_vecs, i + 1)

DocFeatures(feat_vecs) == Flatten(feat_vecs, 1)

\* vocabulary.default_factory = vocabulary.__len__
DefaultFactory(voc) == Cardinality(DOMAIN voc)

RECURSIVE Lookups(_, _, _)
\* feat_id = vocabulary[feature] for the features from position i on, on the
\* growing defaultdict: a missing key is added with the next id
Lookups(voc, features, i) ==
    IF i > Len(features) THEN voc
    ELSE Lookups(IF features[i] \in DOMAIN voc THEN voc
                 ELSE voc @@ (features[i] :> DefaultFactory(voc)),
                 features, i + 1)

\* CountDoc adding 1 for every occurrence of a feature in the document
CountDocOccurrences(vocab_df, voc, features) ==
    LET seen == {features[i] : i \in DOMAIN features} \cap DOMAIN voc
    IN  [fn \in DOMAIN vocab_df \cup seen |->
            CounterGet(vocab_df, fn)
                + Cardinality({i \in DOMAIN features : features[i] = fn})]

\* for feature in set(doc_features): if feature in vocabulary: vocab_df[feature] += 1
CountDoc(vocab_df, voc, features) ==
    LET seen == {features[i] : i \in DOMAIN features} \cap DOMAIN voc
    IN  [fn \in DOMAIN vocab_df \cup seen |->
            CounterGet(vocab_df, fn) + (IF fn \in seen THEN 1 ELSE 0)]

RECURSIVE VocabDfLoop(_, _, _, _, _)
\* the loop over the documents from document d on; fvs[d] is analyze(doc)
VocabDfLoop(fvs, d, fixed_vocab, voc, vocab_df) ==
    IF d > Len(fvs) THEN [vocabulary |-> voc, vocab_df |-> vocab_df]
    ELSE LET features == DocFeatures(fvs[d])
             voc2 == IF fixed_vocab THEN voc ELSE Lookups(voc, features, 1)
         IN  VocabDfLoop(fvs, d + 1, fixed_vocab, voc2,
                         CountDoc(vocab_df, voc2, features))

\* _vocab_df(raw_documents, fixed_vocab); current is self.vocabulary_
VocabDf(fvs, fixed_vocab, current) ==
    LET r == VocabDfLoop(fvs, 1, fixed_vocab,
                         IF fixed_vocab THEN current ELSE <<>>, <<>>)
    IN  [vocabulary |-> r.vocabulary,
         vocab_df |-> r.vocab_df,
         raised |-> ~fixed_vocab /\ DOMAIN r.vocabulary = {}]

----------------------------------------------------------------------------
(* DocumentCountVectorizer._limit_vocabulary *)

RECURSIVE SortedById(_, _)
\* [feat for feat, _ in sorted(vocabulary.items(), key=lambda x: x[1])]
SortedById(voc, S) ==
    IF S = {} THEN <<>>
    ELSE LET m == CHOOSE f \in S : \A g \in S : voc[f] <= voc[g]
         IN  <<m>> \o SortedById(voc, S \ {m})

\* Mask with the lower bound taken as exclusive (df > low)
MaskExclusiveLow(voc, vocab_df, high, low) ==
    LET feats == SortedById(voc, DOMAIN voc)
    IN  [i \in 1..Len(feats) |->
            IF /\ AtMost(CounterGet(vocab_df, feats[i]), high)
               /\ ~AtMost(CounterGet(vocab_df, feats[i]), low)
            THEN 1 ELSE 0]

\* mask: 1 for the features with low <= df <= high, in id order
Mask(voc, vocab_df, high, low) ==
    LET feats == SortedById(voc, DOMAIN voc)
    IN  [i \in 1..Len(feats) |->
            IF /\ AtMost(CounterGet(vocab_df, feats[i]), high)
               /\ AtLeast(CounterGet(vocab_df, feats[i]), low)
            THEN 1 ELSE 0]

RECURSIVE NewIndicesIgnoringMask(_, _, _)
\* NewIndices counting every feature, removed or not
NewIndicesIgnoringMask(mask, i, prev_idx) ==
    IF i > Len(mask) THEN <<>>
    ELSE <<prev_idx + 1>> \o NewIndicesIgnoringMask(mask, i + 1, prev_idx + 1)

RECURSIVE NewIndices(_, _, _)
\* np.cumsum(mask) - 1, from position i on, with prev_idx the last index
NewIndices(mask, i, prev_idx) ==
    IF i > Len(mask) THEN <<>>
    ELSE <<prev_idx + mask[i]>> \o NewIndices(mask, i + 1, prev_idx + mask[i])

\* the mask, the new indices and the surviving features of a pruning
Pruning(voc, vocab_df, high, low) ==
    LET mask == Mask(voc, vocab_df, high, low)
    IN  [mask |-> mask,
         new_indices |-> NewIndices(mask, 1, -1),
         kept |-> {feat \in DOMAIN voc : mask[voc[feat] + 1] = 1}]

\* LimitVocabulary leaving the survivors their ids of before the pruning
LimitVocabularyKeepingIds(voc, vocab_df, high, low, limit) ==
    LET pr == Pruning(voc, vocab_df, high, low)
    IN  [raised |-> limit.set,
         vocabulary |-> [feat \in pr.kept |-> voc[feat]],
         removed_feats |-> DOMAIN voc \ pr.kept]

\* LimitVocabulary numbering the survivors from the last one down
LimitVocabularyDescending(voc, vocab_df, high, low, limit) ==
    LET pr == Pruning(voc, vocab_df, high, low)
    IN  [raised |-> limit.set,
         vocabulary |-> [feat \in pr.kept |->
                            Cardinality(pr.kept) - 1 - pr.new_indices[voc[feat] + 1]],
         removed_feats |-> DOMAIN voc \ pr.kept]

\* _limit_vocabulary(vocabulary, vocab_df, high, low, limit); high and low are
\* never None in the call of fit_transform; limit is self.max_features
LimitVocabulary(voc, vocab_df, high, low, limit) ==
    LET pr == Pruning(voc, vocab_df, high, low)
    IN  [raised |-> limit.set,
         vocabulary |-> [feat \in pr.kept |-> pr.new_indices[voc[feat] + 1]],
         removed_feats |-> DOMAIN voc \ pr.kept]

----------------------------------------------------------------------------
(* The vectorizer object and the calls made on it *)

VARIABLES
    max_df,             \* self.max_df
    min_df,             \* self.min_df
    max_features,       \* self.max_features: None or an int > 0
    vocabulary,         \* self.vocabulary: None or the supplied mapping
    fixed_vocabulary_,  \* self.fixed_vocabulary_, absent until validated
    vocabulary_,        \* self.vocabulary_, absent until set
    calls               \* the calls made so far, with their generators

\* the DocumentLabelExtractor object and the calls made on it
VARIABLES
    labelset,           \* self.labelset: None or the supplied mapping
    fixed_labelset_,    \* self.fixed_labelset_, absent until validated
    labelset_,          \* self.labelset_, absent until set
    label_calls         \* the calls made so far, with their generators

\* one pass of the one-hot encoding loop over a single (f, v) pair
VARIABLES
    oh_pair,            \* the pair and the separator, before the pass
    oh_feats            \* oh_feats after the pass

\* the calls of DocumentCountVectorizer._extract_feature_vectors, one at a time
VARIABLES
    ef_pc,              \* "idle", "running" (inside the loop) or "returned"
    ef_doc,             \* doc
    pairs_done,         \* the EDU pairs the loop has gone through
    sf_cache,           \* sf_cache
    sing_extract_calls, \* how often this call invoked sing_extract, per EDU
    ef_calls,           \* the number of calls begun
    earlier             \* the (doc, EDU) that earlier calls cached

\* the KeyGroupVectorizer object and the last call made on it
VARIABLES
    kg_vocabulary_,     \* self.vocabulary_ of the KeyGroupVectorizer
    kg_call,            \* the last call, with what it returned or raised
    kg_calls            \* the number of calls made

vectorizer_vars == <<max_df, min_df, max_features, vocabulary, fixed_vocabulary_,
                     vocabulary_, calls>>
label_vars == <<labelset, fixed_labelset_, labelset_, label_calls>>
onehot_vars == <<oh_pair, oh_feats>>
extract_vars == <<ef_pc, ef_doc, pairs_done, sf_cache, sing_extract_calls, ef_calls,
                  earlier>>
keygroup_vars == <<kg_vocabulary_, kg_call, kg_calls>>
vars == <<vectorizer_vars, label_vars, onehot_vars, extract_vars, keygroup_vars>>
config == <<max_df, min_df, max_features, vocabulary>>
\* what an operation of the vectorizer cannot touch
beside_vectorizer == <<label_vars, onehot_vars, extract_vars, keygroup_vars>>

\* an attribute that is set / None or absent
Some(v) == [set |-> TRUE, val |-> v]
NoMapping == [set |-> FALSE, val |-> <<>>]
NoLimit == [set |-> FALSE, val |-> 0]
NoFlag == [set |-> FALSE, val |-> FALSE]

\* a vocabulary supplied at construction
SuppliedVocabulary == ("len" :> 0) @@ ("pos=NN" :> 2)

\* a call and the frame of its generator
NewCall(op, corpus, pc) ==
    [op |-> op, corpus |-> corpus, pc |-> pc, err |-> "",
     \* locals of _instances
     vocabulary |-> <<>>, doc |-> 0, k |-> 0,
     \* rows yielded to the caller
     rows |-> <<>>,
     \* when the body began to run: self.vocabulary_ at that moment, and the
     \* calls that had already ended
     before |-> NoMapping, after |-> {},
     \* what the fitting pass of fit_transform computed
     fitted |-> FALSE, raw |-> <<>>, vocab_df |-> <<>>,
     high |-> Integral(0), low |-> Integral(0), removed_feats |-> {}]

\* the constructor arguments tried: every pairing of the thresholds with
\* max_features when no vocabulary is supplied, a min_df given as a
\* proportion, and a supplied vocabulary (non-empty or empty) with the default
\* and with non-default settings
Configs ==
    {[max_df |-> t[1], min_df |-> t[2], max_features |-> m, vocabulary |-> NoMapping] :
        t \in {<<Float(1, 1), Integral(1)>>, <<Float(1, 1), Integral(2)>>,
               <<Integral(1), Integral(1)>>},
        m \in {NoLimit, Some(1)}}
    \cup {[max_df |-> Integral(1), min_df |-> Float(1, 1), max_features |-> NoLimit,
           vocabulary |-> NoMapping]}
    \cup {[max_df |-> Float(1, 1), min_df |-> Integral(1), max_features |-> NoLimit,
           vocabulary |-> v] : v \in {Some(<<>>), Some(SuppliedVocabulary)}}
    \cup {[max_df |-> Float(1, 1), min_df |-> Integral(2), max_features |-> Some(1),
           vocabulary |-> Some(SuppliedVocabulary)]}

\* no label extractor is in use
NoLabelExtractor ==
    /\ labelset = NoMapping
    /\ fixed_labelset_ = NoFlag
    /\ labelset_ = NoMapping
    /\ label_calls = <<>>

\* no single pair is being encoded
NoOneHot ==
    /\ oh_pair = <<>>
    /\ oh_feats = <<>>

\* _extract_feature_vectors is not being followed
NoDoc == "None"

NoExtraction ==
    /\ ef_pc = "idle"
    /\ ef_doc = NoDoc
    /\ pairs_done = <<>>
    /\ sf_cache = <<>>
    /\ sing_extract_calls = [e \in EDUs |-> 0]
    /\ ef_calls = 0
    /\ earlier = {}

\* no call of a KeyGroupVectorizer has been made
NoKeyGroupCall == [op |-> "none", vectors |-> <<>>, err |-> "", X |-> <<>>,
                   before |-> NoMapping, vocabulary |-> NoMapping]

\* no KeyGroupVectorizer is in use
NoKeyGroup ==
    /\ kg_vocabulary_ = NoMapping
    /\ kg_call = NoKeyGroupCall
    /\ kg_calls = 0

\* the vectorizer after __init__
Init ==
    /\ \E c \in Configs :
        /\ max_df = c.max_df
        /\ min_df = c.min_df
        /\ max_features = c.max_features
        /\ vocabulary = c.vocabulary
    /\ fixed_vocabulary_ = NoFlag
    /\ vocabulary_ = NoMapping
    /\ calls = <<>>
    /\ NoLabelExtractor
    /\ NoOneHot
    /\ NoExtraction
    /\ NoKeyGroup

----------------------------------------------------------------------------
(* DocumentCountVectorizer._instances *)

\* Row giving a feature the vocabulary does not name the next free id
RowGrowing(voc, feat_cnt) ==
    LET entry(fn) == <<IF fn \in DOMAIN voc THEN voc[fn] ELSE Cardinality(DOMAIN voc),
                       feat_cnt[fn]>>
    IN  [e \in {entry(fn) : fn \in DOMAIN feat_cnt} |->
            Cardinality({fn \in DOMAIN feat_cnt : entry(fn) = e})]

\* [(vocabulary[fn], fv) for fn, fv in feat_vec if fn in vocabulary]
\* A row is kept as the bag of its (id, value) entries: their order is the
\* iteration order of the Counter, which carries no meaning.
Row(voc, feat_cnt) ==
    LET known == DOMAIN feat_cnt \cap DOMAIN voc
        entry(fn) == <<voc[fn], feat_cnt[fn]>>
    IN  [e \in {entry(fn) : fn \in known} |->
            Cardinality({fn \in known : entry(fn) = e})]

\* a variant of Later for which the current document is the last
LaterNone(call) == {}

\* the documents after the current one that have an instance
Later(call) ==
    {d \in (call.doc + 1)..Len(call.corpus) : Len(DocAt(call.corpus, d).edu_pairs) > 0}

NextDoc(call) == CHOOSE d \in Later(call) : \A e \in Later(call) : d <= e

\* feat_vecs of the document the generator is in
CurrentFeatVecs(call) ==
    IF call.doc \in 1..Len(call.corpus) THEN FeatCnts(DocAt(call.corpus, call.doc)) ELSE <<>>

\* run the loops of _instances up to the next yield, or to the end
Advance(call) ==
    IF call.k < Len(CurrentFeatVecs(call))
    THEN [call EXCEPT !.k = @ + 1, !.pc = "yielded",
                      !.rows = Append(@, Row(call.vocabulary,
                                             CurrentFeatVecs(call)[call.k + 1]))]
    ELSE IF Later(call) = {}
    THEN [call EXCEPT !.doc = Len(call.corpus) + 1, !.k = 0, !.pc = "done"]
    ELSE [call EXCEPT !.doc = NextDoc(call), !.k = 1, !.pc = "yielded",
                      !.rows = Append(@, Row(call.vocabulary,
                                             FeatCnts(DocAt(call.corpus, NextDoc(call)))[1]))]

Raise(call, err) == [call EXCEPT !.pc = "raised", !.err = err]

\* the calls that have ended: fit returned, a generator exhausted or raised
Ended == {j \in DOMAIN calls : calls[j].pc \in {"returned", "done", "raised"}}

\* the frame of generator i when its body begins to run
Begin(i) == [calls[i] EXCEPT !.before = vocabulary_, !.after = Ended]

----------------------------------------------------------------------------
(* DocumentCountVectorizer._validate_vocabulary *)

\* ValidateVocabulary taking no notice of a supplied vocabulary
ValidateVocabularyNotFixed ==
    [raised |-> FALSE, fixed_vocabulary_ |-> Some(FALSE), vocabulary_ |-> vocabulary_]

ValidateVocabulary ==
    IF vocabulary.set
    THEN IF DOMAIN vocabulary.val = {}
         THEN [raised |-> TRUE, fixed_vocabulary_ |-> fixed_vocabulary_,
               vocabulary_ |-> vocabulary_]
         ELSE [raised |-> FALSE, fixed_vocabulary_ |-> Some(TRUE),
               vocabulary_ |-> Some(vocabulary.val)]
    ELSE [raised |-> FALSE, fixed_vocabulary_ |-> Some(FALSE),
          vocabulary_ |-> vocabulary_]

----------------------------------------------------------------------------
(* The operations *)

\* the iteration orders one pass over a corpus may show, one per document
CorpusOrders(corpus) ==
    {ords \in [1..Len(corpus) -> UNION {Orders(Documents[d]) : d \in Docs}] :
        \A d \in 1..Len(corpus) : ords[d] \in Orders(DocAt(corpus, d))}

\* fit(raw_documents): calls fit_transform, which only creates a generator
\* that is never iterated, and returns self
Fit(corpus) ==
    /\ Len(calls) < MaxCalls
    /\ calls' = Append(calls, NewCall("fit", corpus, "returned"))
    /\ UNCHANGED <<config, fixed_vocabulary_, vocabulary_, beside_vectorizer>>

\* fit_transform(raw_documents): the call creates the generator
FitTransform(corpus) ==
    /\ Len(calls) < MaxCalls
    /\ calls' = Append(calls, NewCall("fit_transform", corpus, "created"))
    /\ UNCHANGED <<config, fixed_vocabulary_, vocabulary_, beside_vectorizer>>

\* transform(raw_documents): the call creates the generator
Transform(corpus) ==
    /\ Len(calls) < MaxCalls
    /\ calls' = Append(calls, NewCall("transform", corpus, "created"))
    /\ UNCHANGED <<config, fixed_vocabulary_, vocabulary_, beside_vectorizer>>

\* first next() on a fit_transform generator: the body up to the first yield
FitTransformFirstNext(i) ==
    /\ calls[i].op = "fit_transform"
    /\ calls[i].pc = "created"
    /\ UNCHANGED <<config, beside_vectorizer>>
    /\ LET call == Begin(i)
           v == ValidateVocabulary
       IN
       IF v.raised
       THEN /\ calls' = [calls EXCEPT ![i] =
                            Raise(call, "ValueError: empty vocabulary passed to fit")]
            /\ UNCHANGED <<fixed_vocabulary_, vocabulary_>>
       ELSE
       \E ords \in CorpusOrders(call.corpus) :
       LET fvs == [d \in 1..Len(call.corpus) |->
                      ExtractFeatureVectors(DocAt(call.corpus, d), ords[d])]
           r == VocabDf(fvs, v.fixed_vocabulary_.val, v.vocabulary_.val)
           n_doc == Len(call.corpus)
           max_doc_count == DocCount(max_df, n_doc)
           min_doc_count == DocCount(min_df, n_doc)
           lim == LimitVocabulary(r.vocabulary, r.vocab_df,
                                  max_doc_count, min_doc_count, max_features)
       IN
       /\ fixed_vocabulary_' = v.fixed_vocabulary_
       /\ IF r.raised
          THEN /\ calls' = [calls EXCEPT ![i] =
                               Raise(call, "ValueError: empty vocabulary")]
               /\ vocabulary_' = v.vocabulary_
          ELSE IF v.fixed_vocabulary_.val
          THEN /\ vocabulary_' = v.vocabulary_
               /\ LET started == [call EXCEPT !.vocabulary = v.vocabulary_.val]
                  IN  calls' = [calls EXCEPT ![i] = Advance(started)]
          ELSE IF Less(max_doc_count, min_doc_count)
          THEN /\ calls' = [calls EXCEPT ![i] =
                               Raise(call, "ValueError: max_df < min_df")]
               /\ vocabulary_' = v.vocabulary_
          ELSE IF lim.raised
          THEN /\ calls' = [calls EXCEPT ![i] = Raise(call, "NotImplementedError")]
               /\ vocabulary_' = v.vocabulary_
          ELSE /\ vocabulary_' = Some(lim.vocabulary)
               /\ LET started == [call EXCEPT
                                     !.vocabulary = lim.vocabulary,
                                     !.fitted = TRUE,
                                     !.raw = r.vocabulary,
                                     !.vocab_df = r.vocab_df,
                                     !.high = max_doc_count,
                                     !.low = min_doc_count,
                                     !.removed_feats = lim.removed_feats]
                  IN  calls' = [calls EXCEPT ![i] = Advance(started)]

\* first next() on a transform generator: the body up to the first yield
TransformFirstNext(i) ==
    /\ calls[i].op = "transform"
    /\ calls[i].pc = "created"
    /\ UNCHANGED <<config, beside_vectorizer>>
    /\ LET call == Begin(i)
           v == IF vocabulary_.set
                THEN [raised |-> FALSE, fixed_vocabulary_ |-> fixed_vocabulary_,
                      vocabulary_ |-> vocabulary_]
                ELSE ValidateVocabulary
       IN
       /\ fixed_vocabulary_' = v.fixed_vocabulary_
       /\ vocabulary_' = v.vocabulary_
       /\ IF v.raised
          THEN calls' = [calls EXCEPT ![i] =
                            Raise(call, "ValueError: empty vocabulary passed to fit")]
          ELSE IF ~v.vocabulary_.set
          THEN calls' = [calls EXCEPT ![i] = Raise(call, "AttributeError")]
          ELSE IF DOMAIN v.vocabulary_.val = {}
          THEN calls' = [calls EXCEPT ![i] = Raise(call, "ValueError: Empty vocabulary")]
          ELSE LET started == [call EXCEPT !.vocabulary = v.vocabulary_.val]
               IN  calls' = [calls EXCEPT ![i] = Advance(started)]

\* a variant of ResumeNext that stores a feature of the first document that
\* the stored vocabulary does not name
ResumeNextLearning(i) ==
    /\ calls[i].pc = "yielded"
    /\ calls' = [calls EXCEPT ![i] = Advance(calls[i])]
    /\ LET new == DocNames(DocAt(calls[i].corpus, 1)) \ DOMAIN vocabulary_.val
       IN  vocabulary_' =
               IF vocabulary_.set /\ new # {}
               THEN Some(vocabulary_.val @@
                         ((CHOOSE f \in new : TRUE) :> Cardinality(DOMAIN vocabulary_.val)))
               ELSE vocabulary_
    /\ UNCHANGED <<config, fixed_vocabulary_, beside_vectorizer>>

\* a variant of ResumeNext that reads self.vocabulary_ again for every row
ResumeNextRereading(i) ==
    /\ calls[i].pc = "yielded"
    /\ calls' = [calls EXCEPT ![i] =
                    Advance([calls[i] EXCEPT !.vocabulary = vocabulary_.val])]
    /\ UNCHANGED <<config, fixed_vocabulary_, vocabulary_, beside_vectorizer>>

\* a later next() on a generator suspended at the yield of _instances
ResumeNext(i) ==
    /\ calls[i].pc = "yielded"
    /\ calls' = [calls EXCEPT ![i] = Advance(calls[i])]
    /\ UNCHANGED <<config, fixed_vocabulary_, vocabulary_, beside_vectorizer>>

Next ==
    \/ \E corpus \in Corpora : Fit(corpus)
    \/ \E corpus \in Corpora : FitTransform(corpus)
    \/ \E corpus \in Corpora : Transform(corpus)
    \/ \E i \in DOMAIN calls : FitTransformFirstNext(i)
    \/ \E i \in DOMAIN calls : TransformFirstNext(i)
    \/ \E i \in DOMAIN calls : ResumeNext(i)

Spec == Init /\ [][Next]_vars

\* the behaviours in which a single call is made on the vectorizer: what one
\* call does with its corpus, whatever the corpus
NextSingleCall ==
    \/ \E corpus \in Corpora : Len(calls) = 0 /\ Fit(corpus)
    \/ \E corpus \in Corpora : Len(calls) = 0 /\ FitTransform(corpus)
    \/ \E corpus \in Corpora : Len(calls) = 0 /\ Transform(corpus)
    \/ \E i \in DOMAIN calls : FitTransformFirstNext(i)
    \/ \E i \in DOMAIN calls : TransformFirstNext(i)
    \/ \E i \in DOMAIN calls : ResumeNext(i)
SpecSingleCall == Init /\ [][NextSingleCall]_vars

\* the same behaviours when the caller keeps asking a generator that has
\* yielded a row for its next row, until the generator ends
Consume == \E i \in DOMAIN calls : ResumeNext(i)

SpecConsumed == SpecSingleCall /\ WF_vars(Consume)

----------------------------------------------------------------------------
(* DocumentLabelExtractor *)

\* unknown_label (constructor default)
unknown_label == "__UNK__"

\* doc.relations(edu_pairs): one label per EDU pair of the document
Relations == [LenPos |-> <<"elab", "attr">>, Rare |-> <<"attr", "cause">>]

\* _extract_labels(doc)
ExtractLabels(d) == Relations[d]

RECURSIVE CorpusLabels(_, _)
\* the labels the loops "for doc in raw_documents: for lab in analyze(doc)"
\* go through, from document d on
CorpusLabels(corpus, d) ==
    IF d > Len(corpus) THEN <<>>
    ELSE ExtractLabels(corpus[d]) \o CorpusLabels(corpus, d + 1)

\* the labelsets supplied at construction: none, an empty one, one that
\* holds the unknown label with id 0, one that holds it with another id, and
\* one that does not hold it
SuppliedLabelsets ==
    {NoMapping,
     Some(<<>>),
     Some((unknown_label :> 0) @@ ("elab" :> 1)),
     Some(("elab" :> 0) @@ (unknown_label :> 1)),
     Some(("elab" :> 0) @@ ("attr" :> 1))}

\* a call and the frame of its generator
NewLabelCall(op, corpus, pc) ==
    [op |-> op, corpus |-> corpus, pc |-> pc, err |-> "",
     \* locals of _instance_labels, and the number of labels gone through
     labelset |-> <<>>, unk_lab_id |-> 0, n |-> 0,
     \* label ids yielded to the caller
     labs |-> <<>>,
     \* self.labelset_ when the body began to run
     before |-> NoMapping,
     \* the labelset _learn_labelset returned
     learned |-> NoMapping]

\* the vectorizer is not in use
NoVectorizer ==
    /\ max_df = Float(1, 1)
    /\ min_df = Integral(1)
    /\ max_features = NoLimit
    /\ vocabulary = NoMapping
    /\ fixed_vocabulary_ = NoFlag
    /\ vocabulary_ = NoMapping
    /\ calls = <<>>

\* the label extractor after __init__
InitLabels ==
    /\ labelset \in SuppliedLabelsets
    /\ fixed_labelset_ = NoFlag
    /\ labelset_ = NoMapping
    /\ label_calls = <<>>
    /\ NoVectorizer
    /\ NoOneHot
    /\ NoExtraction
    /\ NoKeyGroup

\* _validate_labelset
ValidateLabelset ==
    IF labelset.set
    THEN IF DOMAIN labelset.val = {}
         THEN [raised |-> TRUE, fixed_labelset_ |-> fixed_labelset_,
               labelset_ |-> labelset_]
         ELSE [raised |-> FALSE, fixed_labelset_ |-> Some(TRUE),
               labelset_ |-> Some(labelset.val)]
    ELSE [raised |-> FALSE, fixed_labelset_ |-> Some(FALSE),
          labelset_ |-> labelset_]

RECURSIVE LabelLookupsFromOne(_, _, _)
\* LabelLookups giving a new label the id len(labelset) + 1
LabelLookupsFromOne(labs, labels, i) ==
    IF i > Len(labels) THEN labs
    ELSE LabelLookupsFromOne(IF labels[i] \in DOMAIN labs THEN labs
                             ELSE labs @@ (labels[i] :> Cardinality(DOMAIN labs) + 1),
                             labels, i + 1)

RECURSIVE LabelLookups(_, _, _)
\* lab_id = labelset[lab] for the labels from position i on, on the
\* defaultdict whose default_factory is its __len__
LabelLookups(labs, labels, i) ==
    IF i > Len(labels) THEN labs
    ELSE LabelLookups(IF labels[i] \in DOMAIN labs THEN labs
                      ELSE labs @@ (labels[i] :> Cardinality(DOMAIN labs)),
                      labels, i + 1)

\* a variant of LearnLabelset that does not look the unknown label up before
\* the labels of the corpus
LearnLabelsetWithoutUnknown(corpus, fixed, current) ==
    IF fixed
    THEN IF unknown_label \in DOMAIN current
         THEN [raised |-> FALSE, err |-> "", labelset |-> current]
         ELSE [raised |-> TRUE, err |-> "KeyError", labelset |-> current]
    ELSE LET grown == LabelLookups(<<>>, CorpusLabels(corpus, 1), 1)
         IN  [raised |-> DOMAIN grown = {},
              err |-> IF DOMAIN grown = {} THEN "ValueError: empty labelset" ELSE "",
              labelset |-> grown]

\* _learn_labelset(raw_documents, fixed_labelset); current is self.labelset_
LearnLabelset(corpus, fixed, current) ==
    IF fixed
    THEN IF unknown_label \in DOMAIN current
         THEN [raised |-> FALSE, err |-> "", labelset |-> current]
         ELSE [raised |-> TRUE, err |-> "KeyError", labelset |-> current]
    ELSE LET grown == LabelLookups(<<>>, <<unknown_label>> \o CorpusLabels(corpus, 1), 1)
         IN  [raised |-> DOMAIN grown = {},
              err |-> IF DOMAIN grown = {} THEN "ValueError: empty labelset" ELSE "",
              labelset |-> grown]

\* try: yield labelset[lab]  except KeyError: yield unk_lab_id
LabelId(labs, unk_lab_id, lab) ==
    IF lab \in DOMAIN labs THEN labs[lab] ELSE unk_lab_id

\* run the loops of _instance_labels up to the next yield, or to the end
LabelAdvance(call) ==
    LET labels == CorpusLabels(call.corpus, 1)
    IN  IF call.n < Len(labels)
        THEN [call EXCEPT !.n = @ + 1, !.pc = "yielded",
                          !.labs = Append(@, LabelId(call.labelset, call.unk_lab_id,
                                                     labels[call.n + 1]))]
        ELSE [call EXCEPT !.pc = "done"]

\* _instance_labels(raw_documents) up to its first yield; current is
\* self.labelset_
InstanceLabels(call, current) ==
    IF unknown_label \in DOMAIN current
    THEN LabelAdvance([call EXCEPT !.labelset = current,
                                   !.unk_lab_id = current[unknown_label]])
    ELSE Raise(call, "KeyError")

\* the statements fit and fit_transform share: _validate_labelset, then
\* _learn_labelset, then the assignment of self.labelset_
FitLabelset(corpus) ==
    LET v == ValidateLabelset
        r == LearnLabelset(corpus, v.fixed_labelset_.val, v.labelset_.val)
    IN  IF v.raised
        THEN [raised |-> TRUE, err |-> "ValueError: empty labelset passed to fit",
              fixed_labelset_ |-> fixed_labelset_, labelset_ |-> labelset_,
              learned |-> NoMapping]
        ELSE IF r.raised
        THEN [raised |-> TRUE, err |-> r.err,
              fixed_labelset_ |-> v.fixed_labelset_, labelset_ |-> v.labelset_,
              learned |-> NoMapping]
        ELSE [raised |-> FALSE, err |-> "",
              fixed_labelset_ |-> v.fixed_labelset_,
              labelset_ |-> IF v.fixed_labelset_.val THEN v.labelset_
                            ELSE Some(r.labelset),
              learned |-> Some(r.labelset)]

\* fit(raw_documents): an ordinary method, it runs to its end at the call
LabelFit(corpus) ==
    /\ Len(label_calls) < MaxCalls
    /\ LET f == FitLabelset(corpus)
           call == [NewLabelCall("fit", corpus, "returned") EXCEPT
                       !.before = labelset_, !.learned = f.learned]
       IN  /\ fixed_labelset_' = f.fixed_labelset_
           /\ labelset_' = f.labelset_
           /\ label_calls' = Append(label_calls,
                                    IF f.raised THEN Raise(call, f.err) ELSE call)
    /\ UNCHANGED <<labelset, vectorizer_vars, onehot_vars, extract_vars,
                 keygroup_vars>>

\* fit_transform(raw_documents): the call creates the generator
LabelFitTransform(corpus) ==
    /\ Len(label_calls) < MaxCalls
    /\ label_calls' = Append(label_calls, NewLabelCall("fit_transform", corpus, "created"))
    /\ UNCHANGED <<labelset, fixed_labelset_, labelset_, vectorizer_vars, onehot_vars, extract_vars,
                 keygroup_vars>>

\* transform(raw_documents): the call creates the generator
LabelTransform(corpus) ==
    /\ Len(label_calls) < MaxCalls
    /\ label_calls' = Append(label_calls, NewLabelCall("transform", corpus, "created"))
    /\ UNCHANGED <<labelset, fixed_labelset_, labelset_, vectorizer_vars, onehot_vars, extract_vars,
                 keygroup_vars>>

\* first next() on a fit_transform generator: the body up to the first yield
LabelFitTransformFirstNext(i) ==
    /\ label_calls[i].op = "fit_transform"
    /\ label_calls[i].pc = "created"
    /\ LET f == FitLabelset(label_calls[i].corpus)
           call == [label_calls[i] EXCEPT !.before = labelset_, !.learned = f.learned]
       IN  /\ fixed_labelset_' = f.fixed_labelset_
           /\ labelset_' = f.labelset_
           /\ label_calls' = [label_calls EXCEPT ![i] =
                                 IF f.raised THEN Raise(call, f.err)
                                 ELSE InstanceLabels(call, f.labelset_.val)]
    /\ UNCHANGED <<labelset, vectorizer_vars, onehot_vars, extract_vars,
                 keygroup_vars>>

\* first next() on a transform generator: the body up to the first yield
LabelTransformFirstNext(i) ==
    /\ label_calls[i].op = "transform"
    /\ label_calls[i].pc = "created"
    /\ LET call == [label_calls[i] EXCEPT !.before = labelset_]
           v == IF labelset_.set
                THEN [raised |-> FALSE, fixed_labelset_ |-> fixed_labelset_,
                      labelset_ |-> labelset_]
                ELSE ValidateLabelset
       IN  /\ fixed_labelset_' = v.fixed_labelset_
           /\ labelset_' = v.labelset_
           /\ label_calls' = [label_calls EXCEPT ![i] =
                IF v.raised
                THEN Raise(call, "ValueError: empty labelset passed to fit")
                ELSE IF ~v.labelset_.set
                THEN Raise(call, "AttributeError")
                ELSE IF DOMAIN v.labelset_.val = {}
                THEN Raise(call, "ValueError: Empty labelset")
                ELSE InstanceLabels(call, v.labelset_.val)]
    /\ UNCHANGED <<labelset, vectorizer_vars, onehot_vars, extract_vars,
                 keygroup_vars>>

\* a later next() on a generator suspended at a yield of _instance_labels
LabelResumeNext(i) ==
    /\ label_calls[i].pc = "yielded"
    /\ label_calls' = [label_calls EXCEPT ![i] = LabelAdvance(label_calls[i])]
    /\ UNCHANGED <<labelset, fixed_labelset_, labelset_, vectorizer_vars, onehot_vars, extract_vars,
                 keygroup_vars>>

NextLabels ==
    \/ \E corpus \in Corpora : LabelFit(corpus)
    \/ \E corpus \in Corpora : LabelFitTransform(corpus)
    \/ \E corpus \in Corpora : LabelTransform(corpus)
    \/ \E i \in DOMAIN label_calls : LabelFitTransformFirstNext(i)
    \/ \E i \in DOMAIN label_calls : LabelTransformFirstNext(i)
    \/ \E i \in DOMAIN label_calls : LabelResumeNext(i)

SpecLabels == InitLabels /\ [][NextLabels]_vars

\* the behaviours in which a single call is made on the label extractor
NextLabelsSingleCall ==
    \/ \E corpus \in Corpora : Len(label_calls) = 0 /\ LabelFit(corpus)
    \/ \E corpus \in Corpora : Len(label_calls) = 0 /\ LabelFitTransform(corpus)
    \/ \E corpus \in Corpora : Len(label_calls) = 0 /\ LabelTransform(corpus)
    \/ \E i \in DOMAIN label_calls : LabelFitTransformFirstNext(i)
    \/ \E i \in DOMAIN label_calls : LabelTransformFirstNext(i)
    \/ \E i \in DOMAIN label_calls : LabelResumeNext(i)
SpecLabelsSingleCall == InitLabels /\ [][NextLabelsSingleCall]_vars

----------------------------------------------------------------------------
(* One pass of the one-hot encoding loop, on its own *)

\* the feature names, values and separators tried
FeatureNames == {"len", "pos"}
FeatureValues ==
    {Num(0), Num(3), Num(5),
     Str("NN"), Str("X"), Str("3"),
     Uni(<<"N", "N">>), Uni(<<"a", NBSP, "b">>),
     Tup(<<>>), Tup(<<"a">>), Tup(<<"a", "b">>)}
Separators == {separator, ":", "_"}

\* a pair (f, v) of feats and the separator of the vectorizer
InitOneHot ==
    /\ oh_pair \in FeatureNames \X FeatureValues \X Separators
    /\ oh_feats = <<>>
    /\ NoVectorizer
    /\ NoLabelExtractor
    /\ NoExtraction
    /\ NoKeyGroup

\* the body of "for f, v in feats", ending with oh_feats.append((f, v))
OneHotEncode ==
    /\ oh_pair # <<>>
    /\ oh_feats = <<>>
    /\ oh_feats' = << <<OneHotName(oh_pair[1], oh_pair[2], oh_pair[3]),
                        OneHotValue(oh_pair[2])>> >>
    /\ UNCHANGED <<oh_pair, vectorizer_vars, label_vars, extract_vars, keygroup_vars>>

NextOneHot == OneHotEncode

SpecOneHot == InitOneHot /\ [][NextOneHot]_vars

----------------------------------------------------------------------------
(* DocumentCountVectorizer._extract_feature_vectors: the cache of single    *)
(* EDU features, followed pair by pair.  instance_generator(doc) is an      *)
(* input: any sequence of at most MaxPairs pairs of distinct EDUs.          *)

EduPairs == {p \in EDUs \X EDUs : p[1] # p[2]}

\* a variant of Cached that never finds an EDU in the cache
NeverCached(cache, edu) == FALSE

\* edu in sf_cache
Cached(cache, edu) == edu \in DOMAIN cache

\* if edu not in sf_cache: sf_cache[edu] = dict(sing_extract(edu_info))
\* c is the pair of the cache and of the invocation counts
Lookup(doc, c, edu) ==
    IF Cached(c[1], edu) THEN c
    ELSE <<(edu :> dict(Documents[doc].sing[edu])) @@ c[1],
           [c[2] EXCEPT ![edu] = @ + 1]>>

\* the extractor is idle: no vectorizer, label extractor or encoding in use
InitExtract ==
    /\ NoExtraction
    /\ NoVectorizer
    /\ NoLabelExtractor
    /\ NoOneHot
    /\ NoKeyGroup

\* the call, up to the loop: sf_cache = dict()
ExtractBegin(doc) ==
    /\ ef_pc \in {"idle", "returned"}
    /\ ef_calls < MaxCalls
    /\ ef_pc' = "running"
    /\ ef_doc' = doc
    /\ pairs_done' = <<>>
    /\ sf_cache' = <<>>
    /\ sing_extract_calls' = [e \in EDUs |-> 0]
    /\ ef_calls' = ef_calls + 1
    /\ UNCHANGED <<earlier, vectorizer_vars, label_vars, onehot_vars, keygroup_vars>>

\* one pass of "for edu1, edu2 in edu_pairs", as far as the cache goes
ExtractPair(edu1, edu2) ==
    /\ ef_pc = "running"
    /\ Len(pairs_done) < MaxPairs
    /\ LET gov == Lookup(ef_doc, <<sf_cache, sing_extract_calls>>, edu1)
           dep == Lookup(ef_doc, gov, edu2)
       IN  /\ sf_cache' = dep[1]
           /\ sing_extract_calls' = dep[2]
    /\ pairs_done' = Append(pairs_done, <<edu1, edu2>>)
    /\ UNCHANGED <<ef_pc, ef_doc, ef_calls, earlier, vectorizer_vars, label_vars,
                   onehot_vars, keygroup_vars>>

\* the generator of pairs is exhausted: return feat_vecs
ExtractReturn ==
    /\ ef_pc = "running"
    /\ ef_pc' = "returned"
    /\ earlier' = earlier \cup {<<ef_doc, e>> : e \in DOMAIN sf_cache}
    /\ UNCHANGED <<ef_doc, pairs_done, sf_cache, sing_extract_calls, ef_calls,
                   vectorizer_vars, label_vars, onehot_vars, keygroup_vars>>

NextExtract ==
    \/ \E doc \in Docs : ExtractBegin(doc)
    \/ \E p \in EduPairs : ExtractPair(p[1], p[2])
    \/ ExtractReturn

SpecExtract == InitExtract /\ [][NextExtract]_vars

----------------------------------------------------------------------------
(* KeyGroupVectorizer.  A feature vector is given by what its               *)
(* one_hot_values_gen() emits: a sequence of (feature, featval) pairs.      *)

KeyGroups ==
    {<<>>,
     << <<"len", 3>>, <<"pos=NN", 1>> >>,
     << <<"pos=NN", 1>>, <<"len", 5>>, <<"pos=NN", 1>> >>,
     << <<"rare=X", 1>>, <<"len", 5>> >>}

\* the lists of feature vectors handed to a call
VectorLists == UNION {[1..n -> KeyGroups] : n \in 0..MaxVectors}

\* a variant of FeatureIdx that gives an unknown feature the next free id
\* whether or not the vocabulary is fixed
FeatureIdxGrowing(voc, fixed_vocab, feature) ==
    IF feature \in DOMAIN voc
    THEN [known |-> TRUE, feature_idx |-> voc[feature], vocabulary |-> voc]
    ELSE [known |-> TRUE, feature_idx |-> Cardinality(DOMAIN voc),
          vocabulary |-> voc @@ (feature :> Cardinality(DOMAIN voc))]

\* feature_idx = vocabulary[feature], under "except KeyError: continue":
\* the plain dict of a fixed vocabulary raises KeyError for a missing
\* feature, the defaultdict adds it with its length as id
FeatureIdx(voc, fixed_vocab, feature) ==
    IF feature \in DOMAIN voc
    THEN [known |-> TRUE, feature_idx |-> voc[feature], vocabulary |-> voc]
    ELSE IF fixed_vocab
    THEN [known |-> FALSE, feature_idx |-> 0, vocabulary |-> voc]
    ELSE [known |-> TRUE, feature_idx |-> Cardinality(DOMAIN voc),
          vocabulary |-> voc @@ (feature :> Cardinality(DOMAIN voc))]

RECURSIVE CountVec(_, _, _, _, _)
\* "for feature, featval in vec.one_hot_values_gen()" from emission j on;
\* x is the part of feature_acc that belongs to vec
CountVec(vec, j, voc, fixed_vocab, x) ==
    IF j > Len(vec) THEN [vocabulary |-> voc, x |-> x]
    ELSE LET r == FeatureIdx(voc, fixed_vocab, vec[j][1])
         IN  CountVec(vec, j + 1, r.vocabulary, fixed_vocab,
                      IF r.known THEN Append(x, <<r.feature_idx, vec[j][2]>>) ELSE x)

RECURSIVE CountVectors(_, _, _, _, _)
\* "for vec in vectors" from vector i on; X holds feature_acc cut at row_ptr
CountVectors(vectors, i, voc, fixed_vocab, X) ==
    IF i > Len(vectors) THEN [vocabulary |-> voc, X |-> X]
    ELSE LET r == CountVec(vectors[i], 1, voc, fixed_vocab, <<>>)
         IN  CountVectors(vectors, i + 1, r.vocabulary, fixed_vocab, Append(X, r.x))

\* _count_vocab(vectors, fixed_vocab) on an object whose vocabulary_ is
\* current.  With fixed_vocab and vocabulary_ still None, the first lookup
\* is None[feature]: a TypeError, which "except KeyError" lets through.
CountVocab(vectors, fixed_vocab, current) ==
    IF fixed_vocab /\ ~current.set /\ \E i \in DOMAIN vectors : vectors[i] # <<>>
    THEN [err |-> "TypeError", vocabulary |-> NoMapping, X |-> <<>>]
    ELSE LET r == CountVectors(vectors, 1, IF fixed_vocab THEN current.val ELSE <<>>,
                               fixed_vocab, <<>>)
         IN  IF ~fixed_vocab /\ DOMAIN r.vocabulary = {}
             THEN [err |-> "ValueError: empty vocabulary", vocabulary |-> NoMapping,
                   X |-> <<>>]
             ELSE [err |-> "",
                   vocabulary |-> IF fixed_vocab THEN current ELSE Some(r.vocabulary),
                   X |-> r.X]

\* the KeyGroupVectorizer after __init__: self.vocabulary_ = None
InitKeyGroup ==
    /\ NoKeyGroup
    /\ NoVectorizer
    /\ NoLabelExtractor
    /\ NoOneHot
    /\ NoExtraction

\* a variant of KeyGroupFitTransform that assigns vocabulary_ before
\* _count_vocab checks the vocabulary
KeyGroupFitTransformStoring(vectors) ==
    /\ kg_calls < MaxCalls
    /\ kg_calls' = kg_calls + 1
    /\ LET r == CountVocab(vectors, FALSE, kg_vocabulary_)
       IN  /\ kg_call' = [op |-> "fit_transform", vectors |-> vectors, err |-> r.err,
                          X |-> r.X, before |-> kg_vocabulary_,
                          vocabulary |-> r.vocabulary]
           /\ kg_vocabulary_' = IF r.err = "" THEN r.vocabulary ELSE Some(<<>>)
    /\ UNCHANGED <<vectorizer_vars, label_vars, onehot_vars, extract_vars>>

\* fit_transform(vectors)
KeyGroupFitTransform(vectors) ==
    /\ kg_calls < MaxCalls
    /\ kg_calls' = kg_calls + 1
    /\ LET r == CountVocab(vectors, FALSE, kg_vocabulary_)
       IN  /\ kg_call' = [op |-> "fit_transform", vectors |-> vectors, err |-> r.err,
                          X |-> r.X, before |-> kg_vocabulary_,
                          vocabulary |-> r.vocabulary]
           /\ kg_vocabulary_' = IF r.err = "" THEN r.vocabulary ELSE kg_vocabulary_
    /\ UNCHANGED <<vectorizer_vars, label_vars, onehot_vars, extract_vars>>

\* transform(vectors)
KeyGroupTransform(vectors) ==
    /\ kg_calls < MaxCalls
    /\ kg_calls' = kg_calls + 1
    /\ LET r == CountVocab(vectors, TRUE, kg_vocabulary_)
       IN  kg_call' = [op |-> "transform", vectors |-> vectors, err |-> r.err,
                      X |-> r.X, before |-> kg_vocabulary_,
                      vocabulary |-> r.vocabulary]
    /\ UNCHANGED <<kg_vocabulary_, vectorizer_vars, label_vars, onehot_vars,
                   extract_vars>>

NextKeyGroup ==
    \/ \E vectors \in VectorLists : KeyGroupFitTransform(vectors)
    \/ \E vectors \in VectorLists : KeyGroupTransform(vectors)

SpecKeyGroup == InitKeyGroup /\ [][NextKeyGroup]_vars

\* the behaviours of a program that uses one of the two vectorizers: a
\* DocumentCountVectorizer or a KeyGroupVectorizer
NextEither ==
    \/ kg_calls = 0 /\ Next
    \/ calls = <<>> /\ NextKeyGroup

SpecEither == Init /\ [][NextEither]_vars

----------------------------------------------------------------------------
(* Vocabulary of the properties *)

\* the ids of a mapping
Ids(voc) == {voc[fn] : fn \in DOMAIN voc}

\* the ids are exactly 0..n-1 and no two names share one
Contiguous(voc) ==
    /\ Ids(voc) = 0..(Cardinality(DOMAIN voc) - 1)
    /\ \A f, g \in DOMAIN voc : voc[f] = voc[g] => f = g

\* the one-hot feature names of a corpus
CorpusNames(corpus) == UNION {DocNames(DocAt(corpus, d)) : d \in DOMAIN corpus}

\* document frequency: the number of documents of the corpus showing the name
DF(corpus, fn) == Cardinality({d \in DOMAIN corpus : fn \in DocNames(DocAt(corpus, d))})

\* the names of a corpus whose document frequency lies within the thresholds
Survivors(corpus) ==
    {fn \in CorpusNames(corpus) :
        /\ AtLeast(DF(corpus, fn), DocCount(min_df, Len(corpus)))
        /\ AtMost(DF(corpus, fn), DocCount(max_df, Len(corpus)))}

\* the thresholds resolve to a non-empty range for a corpus
ValidThresholds(corpus) ==
    ~Less(DocCount(max_df, Len(corpus)), DocCount(min_df, Len(corpus)))

\* the errors that report an empty vocabulary
EmptyVocabularyErrors ==
    {"ValueError: empty vocabulary", "ValueError: Empty vocabulary",
     "ValueError: empty vocabulary passed to fit"}

\* the instances of a corpus in document order, as (document, pair index)
RECURSIVE InstancesFrom(_, _)
InstancesFrom(corpus, d) ==
    IF d > Len(corpus) THEN <<>>
    ELSE [k \in 1..Len(DocAt(corpus, d).edu_pairs) |-> <<d, k>>] \o InstancesFrom(corpus, d + 1)

Instances(corpus) == InstancesFrom(corpus, 1)

\* the Counter of the r-th instance of a corpus
InstanceCnt(corpus, r) ==
    LET x == Instances(corpus)[r]
    IN  FeatCnt(DocAt(corpus, x[1]), DocAt(corpus, x[1]).edu_pairs[x[2]])

----------------------------------------------------------------------------
(* C1: whenever the vectorizer holds a vocabulary it learned itself (none  *)
(* was supplied), its ids are exactly 0..n-1 with no gap and no id shared  *)
(* by two names; the same holds of the raw vocabulary before pruning and   *)
(* of the pruned one.                                                      *)
C1_LearnedIdsContiguous ==
    /\ (vocabulary_.set /\ ~vocabulary.set) => Contiguous(vocabulary_.val)
    /\ \A i \in DOMAIN calls :
        calls[i].fitted => /\ Contiguous(calls[i].raw)
                           /\ Contiguous(calls[i].vocabulary)

\* a learned vocabulary of two names is held after pruning removed a name
C1_Witness ==
    /\ vocabulary_.set
    /\ ~vocabulary.set
    /\ Cardinality(DOMAIN vocabulary_.val) = 2
    /\ \E i \in DOMAIN calls :
        /\ calls[i].fitted
        /\ calls[i].removed_feats # {}
        /\ calls[i].vocabulary = vocabulary_.val

----------------------------------------------------------------------------
(* C2: with no vocabulary supplied, once fit(corpus) has returned for a    *)
(* corpus with a feature surviving the thresholds, vocabulary_ exists and  *)
(* is non-empty.                                                           *)
C2_FitStoresVocabulary ==
    \A i \in DOMAIN calls :
        (/\ calls[i].op = "fit"
         /\ calls[i].pc = "returned"
         /\ ~vocabulary.set
         /\ ~max_features.set
         /\ ValidThresholds(calls[i].corpus)
         /\ Survivors(calls[i].corpus) # {})
        => (vocabulary_.set /\ DOMAIN vocabulary_.val # {})

(* C3: with no vocabulary supplied, fit on an empty corpus, or on a corpus *)
(* whose instances yield no feature, raises the empty-vocabulary error.    *)
C3_FitRaisesOnEmptyCorpus ==
    \A i \in DOMAIN calls :
        (/\ calls[i].op = "fit"
         /\ ~vocabulary.set
         /\ CorpusNames(calls[i].corpus) = {})
        => (calls[i].pc = "raised" /\ calls[i].err \in EmptyVocabularyErrors)

(* C4: a fit_transform(corpus) consumed to its end and a transform(corpus) *)
(* of the same corpus that follows it yield the same rows: as many rows,   *)
(* and instance by instance the same (feature id, value) entries.          *)
C4_TransformRepeatsFitTransform ==
    \A i, j \in DOMAIN calls :
        (/\ calls[i].op = "fit_transform"
         /\ calls[i].pc = "done"
         /\ calls[j].op = "transform"
         /\ calls[j].pc \in {"done", "raised"}
         /\ calls[j].corpus = calls[i].corpus
         /\ i \in calls[j].after
         /\ calls[j].before = Some(calls[i].vocabulary))
        => calls[j].rows = calls[i].rows

----------------------------------------------------------------------------
\* the frozen vocabulary a transform finds when its body begins: the one
\* stored by an earlier call, or else the one supplied at construction
Frozen(i) ==
    IF calls[i].before.set THEN calls[i].before.val ELSE vocabulary.val

HasFrozen(i) == calls[i].before.set \/ vocabulary.set

(* C5: under a non-empty frozen vocabulary, transform raises nothing and   *)
(* every row it yields holds only ids of that vocabulary: the features of  *)
(* the instance that the vocabulary names are all kept, with their values, *)
(* and the others are left out, so the row has one entry per named feature *)
(* and may be empty.                                                       *)
C5_TransformStaysWithinVocabulary ==
    \A i \in DOMAIN calls :
        (/\ calls[i].op = "transform"
         /\ calls[i].pc # "created"
         /\ HasFrozen(i)
         /\ DOMAIN Frozen(i) # {})
        => /\ calls[i].pc # "raised"
           /\ \A r \in DOMAIN calls[i].rows :
                LET cnt == InstanceCnt(calls[i].corpus, r)
                    row == calls[i].rows[r]
                IN  /\ \A e \in DOMAIN row : e[1] \in Ids(Frozen(i))
                    /\ \A fn \in DOMAIN cnt \cap DOMAIN Frozen(i) :
                           <<Frozen(i)[fn], cnt[fn]>> \in DOMAIN row
                    /\ BagCardinality(row) =
                           Cardinality(DOMAIN cnt \cap DOMAIN Frozen(i))

\* a transform under a non-empty frozen vocabulary has yielded a row that
\* keeps one feature of its instance and leaves another out, and an empty row
C5_Witness ==
    \E i \in DOMAIN calls :
        /\ calls[i].op = "transform"
        /\ HasFrozen(i)
        /\ DOMAIN Frozen(i) # {}
        /\ \E r \in DOMAIN calls[i].rows :
            LET cnt == InstanceCnt(calls[i].corpus, r)
            IN  /\ DOMAIN cnt \ DOMAIN Frozen(i) # {}
                /\ DOMAIN cnt \cap DOMAIN Frozen(i) # {}
                /\ calls[i].rows[r] # EmptyBag
        /\ \E r \in DOMAIN calls[i].rows : calls[i].rows[r] = EmptyBag

(* C6: transform on a vectorizer with neither a supplied vocabulary nor a  *)
(* vocabulary stored by an earlier fit raises the empty-vocabulary error   *)
(* and yields no row.                                                      *)
C6_TransformWithoutVocabularyRaisesEmpty ==
    \A i \in DOMAIN calls :
        (/\ calls[i].op = "transform"
         /\ calls[i].pc # "created"
         /\ ~HasFrozen(i))
        => /\ calls[i].pc = "raised"
           /\ calls[i].err \in EmptyVocabularyErrors
           /\ calls[i].rows = <<>>

----------------------------------------------------------------------------
(* C7: pruning removes exactly the features whose document frequency lies  *)
(* outside the inclusive range of the resolved thresholds: a feature of    *)
(* the fitting corpus survives if and only if min <= df <= max, a df equal *)
(* to a bound included, and every removed feature has df < min or df > max *)
C7_PrunedOutsideInclusiveRange ==
    \A i \in DOMAIN calls :
        calls[i].fitted =>
            LET corpus == calls[i].corpus
                low == DocCount(min_df, Len(corpus))
                high == DocCount(max_df, Len(corpus))
                within(fn) == /\ AtLeast(DF(corpus, fn), low)
                              /\ AtMost(DF(corpus, fn), high)
            IN  /\ DOMAIN calls[i].raw = CorpusNames(corpus)
                /\ \A fn \in CorpusNames(corpus) :
                       fn \in DOMAIN calls[i].vocabulary <=> within(fn)
                /\ \A fn \in calls[i].removed_feats : ~within(fn)

\* a fitting pass kept a feature whose df equals both bounds and removed one
\* whose df is below the minimum
C7_Witness ==
    \E i \in DOMAIN calls :
        /\ calls[i].fitted
        /\ \E kept \in DOMAIN calls[i].vocabulary, gone \in calls[i].removed_feats :
            /\ AtLeast(DF(calls[i].corpus, kept), calls[i].low)
            /\ AtMost(DF(calls[i].corpus, kept), calls[i].low)
            /\ AtLeast(DF(calls[i].corpus, kept), calls[i].high)
            /\ ~AtLeast(DF(calls[i].corpus, gone), calls[i].low)

(* C8: after pruning the surviving features carry the ids 0..m-1 in the    *)
(* ascending order of their original ids, and the removed set and the      *)
(* surviving names partition the names of the original vocabulary.         *)
C8_ReindexKeepsOrderAndPartitions ==
    \A i \in DOMAIN calls :
        calls[i].fitted =>
            LET raw == calls[i].raw
                voc == calls[i].vocabulary
            IN  /\ Ids(voc) = 0..(Cardinality(DOMAIN voc) - 1)
                /\ \A a, b \in DOMAIN voc : raw[a] < raw[b] => voc[a] < voc[b]
                /\ calls[i].removed_feats \cap DOMAIN voc = {}
                /\ calls[i].removed_feats \cup DOMAIN voc = DOMAIN raw

\* pruning removed a feature whose original id lies between those of two
\* survivors
C8_Witness ==
    \E i \in DOMAIN calls :
        /\ calls[i].fitted
        /\ \E a, b \in DOMAIN calls[i].vocabulary, r \in calls[i].removed_feats :
            /\ calls[i].raw[a] < calls[i].raw[r]
            /\ calls[i].raw[r] < calls[i].raw[b]
            /\ calls[i].vocabulary[a] = 0
            /\ calls[i].vocabulary[b] = 1

----------------------------------------------------------------------------
\* the raw (name, value) pairs the extractors produce for an EDU pair, each
\* with its place and the name of the dict entry it goes to
RawPairs(doc, p) ==
    {<<"EDU1", j, doc.sing[p[1]][j][1] \o "_EDU1", doc.sing[p[1]][j][2]>> :
        j \in DOMAIN doc.sing[p[1]]}
    \cup {<<"EDU2", j, doc.sing[p[2]][j][1] \o "_EDU2", doc.sing[p[2]][j][2]>> :
        j \in DOMAIN doc.sing[p[2]]}
    \cup {<<"pair", j, doc.pair[p][j][1], doc.pair[p][j][2]>> :
        j \in DOMAIN doc.pair[p]}

\* the sum of the contributions of the raw pairs of the r-th instance of a
\* corpus that synthesize the one-hot name fn
RawTotal(corpus, r, fn) ==
    LET x == Instances(corpus)[r]
        doc == DocAt(corpus, x[1])
    IN  SumLast({<<y[1], y[2], OneHotValue(y[4])>> :
                    y \in {z \in RawPairs(doc, doc.edu_pairs[x[2]]) :
                              OneHotName(z[3], z[4], separator) = fn}})

(* C9: in every row, a feature of the vocabulary that raw pairs of the     *)
(* instance synthesize appears as one entry whose value is the sum of the  *)
(* contributions of those raw pairs, 1 for each categorical one: the same  *)
(* categorical observation made twice in an instance yields the value 2.   *)
C9_RepeatedPairsAreSummed ==
    \A i \in DOMAIN calls :
        \A r \in DOMAIN calls[i].rows :
            \A fn \in DOMAIN calls[i].vocabulary :
                RawTotal(calls[i].corpus, r, fn) # 0 =>
                    <<calls[i].vocabulary[fn], RawTotal(calls[i].corpus, r, fn)>>
                        \in DOMAIN calls[i].rows[r]

(* C10: a fit_transform with no vocabulary supplied whose frozen           *)
(* vocabulary would have no entry, pruning having removed every feature    *)
(* of a non-empty raw vocabulary included, raises the empty-vocabulary     *)
(* error: it stores no empty vocabulary_ and yields no row against one.    *)
C10_EmptyFrozenVocabularyRaises ==
    /\ (vocabulary_.set /\ ~vocabulary.set) => DOMAIN vocabulary_.val # {}
    /\ \A i \in DOMAIN calls :
        (/\ calls[i].op = "fit_transform"
         /\ calls[i].pc # "created"
         /\ ~vocabulary.set
         /\ ~max_features.set
         /\ ValidThresholds(calls[i].corpus)
         /\ Survivors(calls[i].corpus) = {})
        => /\ calls[i].pc = "raised"
           /\ calls[i].err \in EmptyVocabularyErrors
           /\ calls[i].rows = <<>>

----------------------------------------------------------------------------
\* a threshold resolved for a corpus of n documents, as the numerator of the
\* count over the threshold's own denominator
Scaled(x, n) == IF x.integral THEN x.num ELSE x.num * n

\* the resolved maximum document count is less than the resolved minimum
MaxBelowMin(corpus) ==
    Scaled(max_df, Len(corpus)) * min_df.den < Scaled(min_df, Len(corpus)) * max_df.den

ThresholdError == "ValueError: max_df < min_df"

\* a fit_transform call, no vocabulary supplied, whose body has run
FitTransformRan(i) ==
    /\ calls[i].op = "fit_transform"
    /\ calls[i].pc # "created"
    /\ ~vocabulary.set

(* C11, as stated: a fit_transform with no vocabulary supplied fails with   *)
(* the invalid-threshold error if and only if the resolved maximum document *)
(* count is less than the resolved minimum document count.                  *)
C11_ThresholdErrorIffMaxBelowMin ==
    \A i \in DOMAIN calls :
        FitTransformRan(i) =>
            ((calls[i].pc = "raised" /\ calls[i].err = ThresholdError)
                <=> MaxBelowMin(calls[i].corpus))

(* C11, amended: a fit_transform with no vocabulary supplied fails with the *)
(* invalid-threshold error if and only if the corpus yields at least one    *)
(* feature and the resolved maximum document count is less than the         *)
(* resolved minimum; a corpus that yields no feature fails with the         *)
(* empty-vocabulary error before the thresholds are compared.               *)
C11_ThresholdErrorIffMaxBelowMinAndFeatures ==
    \A i \in DOMAIN calls :
        FitTransformRan(i) =>
            /\ (calls[i].pc = "raised" /\ calls[i].err = ThresholdError)
                   <=> (MaxBelowMin(calls[i].corpus) /\ CorpusNames(calls[i].corpus) # {})
            /\ (MaxBelowMin(calls[i].corpus) /\ CorpusNames(calls[i].corpus) = {})
                   => (calls[i].pc = "raised" /\ calls[i].err = "ValueError: empty vocabulary")

\* a fit_transform over two documents failed with the invalid-threshold
\* error, its min_df a proportion resolved against the corpus size
C11_Witness ==
    \E i \in DOMAIN calls :
        /\ FitTransformRan(i)
        /\ calls[i].pc = "raised"
        /\ calls[i].err = ThresholdError
        /\ Len(calls[i].corpus) = 2
        /\ ~min_df.integral

----------------------------------------------------------------------------
\* the condition of a call is invalid as soon as the call is made: it can be
\* told from the constructor arguments, the corpus and the absence of a
\* vocabulary
InvalidAtCall(i) ==
    \/ /\ calls[i].op = "fit_transform"
       /\ \/ vocabulary.set /\ DOMAIN vocabulary.val = {}
          \/ /\ ~vocabulary.set
             /\ \/ CorpusNames(calls[i].corpus) = {}
                \/ MaxBelowMin(calls[i].corpus)
                \/ max_features.set
    \/ /\ calls[i].op = "transform"
       /\ \/ vocabulary.set /\ DOMAIN vocabulary.val = {}
          \/ ~vocabulary.set /\ ~vocabulary_.set

(* C12: the empty-vocabulary, invalid-threshold and unsupported             *)
(* max_features errors are raised at the call itself: no call of            *)
(* fit_transform or transform made in an invalid condition returns a row    *)
(* sequence whose failure waits for the first request of a row.             *)
C12_ErrorsRaisedAtTheCall ==
    \A i \in DOMAIN calls :
        InvalidAtCall(i) => calls[i].pc = "raised"

(* C13: with a max_features cap and no vocabulary supplied, every fit and   *)
(* every fit_transform whose rows are requested fails with the              *)
(* unsupported-feature error, stores no vocabulary and emits no row.        *)
C13_MaxFeaturesFailsExplicitly ==
    (~vocabulary.set /\ max_features.set) =>
        /\ ~vocabulary_.set
        /\ \A i \in DOMAIN calls :
            (calls[i].op \in {"fit", "fit_transform"} /\ calls[i].pc # "created") =>
                /\ calls[i].pc = "raised"
                /\ calls[i].err = "NotImplementedError"
                /\ calls[i].rows = <<>>

----------------------------------------------------------------------------
\* the id a surviving feature has after pruning: its rank among the
\* survivors by the ids of the raw vocabulary
FinalId(raw, survivors, fn) ==
    Cardinality({g \in survivors : raw[g] < raw[fn]})

\* every row a fit_transform (no vocabulary supplied) has emitted is encoded
\* against the pruned vocabulary of its whole corpus
C14_RowsUseFinalVocabulary ==
    \A i \in DOMAIN calls :
        (/\ calls[i].op = "fit_transform"
         /\ ~vocabulary.set
         /\ calls[i].rows # <<>>)
        => LET survivors == Survivors(calls[i].corpus)
               final == [fn \in survivors |-> FinalId(calls[i].raw, survivors, fn)]
           IN  /\ calls[i].fitted
               /\ DOMAIN calls[i].vocabulary = survivors
               /\ \A r \in DOMAIN calls[i].rows :
                    LET cnt == InstanceCnt(calls[i].corpus, r)
                        row == calls[i].rows[r]
                        kept == DOMAIN cnt \cap survivors
                    IN  /\ \A e \in DOMAIN row : e[1] \in 0..(Cardinality(survivors) - 1)
                        /\ \A fn \in kept : <<final[fn], cnt[fn]>> \in DOMAIN row
                        /\ BagCardinality(row) = Cardinality(kept)

\* the step that emits the first row of a fit_transform (no vocabulary
\* supplied) leaves the pruned vocabulary stored in vocabulary_
C14_StoredBeforeFirstRow ==
    \A i \in DOMAIN calls :
        (/\ calls[i].op = "fit_transform"
         /\ ~vocabulary.set
         /\ calls[i].rows = <<>>
         /\ calls'[i].rows # <<>>)
        => /\ vocabulary_' = Some(calls'[i].vocabulary)
           /\ calls'[i].fitted
           /\ DOMAIN calls'[i].vocab_df = CorpusNames(calls[i].corpus)

(* C14: in every run of fit_transform with no vocabulary supplied, the      *)
(* document-frequency pass over the whole corpus and the pruning are        *)
(* complete and the final vocabulary is stored when the first row is        *)
(* emitted, and every emitted row holds exactly the surviving features of   *)
(* its instance under their post-pruning ids: no pruned feature, no         *)
(* pre-pruning id.                                                          *)
C14_PruningCompleteBeforeRows ==
    []C14_RowsUseFinalVocabulary /\ [][C14_StoredBeforeFirstRow]_vars

\* a fit_transform has emitted two rows, one of them not empty, after a
\* pruning that removed a feature and renumbered a survivor, while a second
\* call was made on the vectorizer
C14_Witness ==
    \E i \in DOMAIN calls :
        /\ calls[i].op = "fit_transform"
        /\ calls[i].fitted
        /\ Len(calls[i].rows) >= 2
        /\ \E r \in DOMAIN calls[i].rows : calls[i].rows[r] # EmptyBag
        /\ calls[i].removed_feats # {}
        /\ \E fn \in DOMAIN calls[i].vocabulary : calls[i].vocabulary[fn] # calls[i].raw[fn]
        /\ Len(calls) = 2

----------------------------------------------------------------------------
(* C15: with a non-empty vocabulary supplied at construction, whatever the  *)
(* corpus and the min_df, max_df and max_features settings, a fit_transform *)
(* whose body has run raises nothing, prunes nothing and leaves vocabulary_ *)
(* equal to the supplied mapping, names and ids; each row holds the         *)
(* features of its instance that the mapping names, under the supplied ids, *)
(* and the other features are dropped.                                      *)
C15_SuppliedVocabularyKept ==
    (vocabulary.set /\ DOMAIN vocabulary.val # {}) =>
        /\ vocabulary_.set => vocabulary_.val = vocabulary.val
        /\ \A i \in DOMAIN calls :
            (calls[i].op = "fit_transform" /\ calls[i].pc # "created") =>
                /\ calls[i].pc # "raised"
                /\ vocabulary_ = Some(vocabulary.val)
                /\ calls[i].removed_feats = {}
                /\ \A r \in DOMAIN calls[i].rows :
                    LET cnt == InstanceCnt(calls[i].corpus, r)
                        row == calls[i].rows[r]
                        named == DOMAIN cnt \cap DOMAIN vocabulary.val
                    IN  /\ \A fn \in named : <<vocabulary.val[fn], cnt[fn]>> \in DOMAIN row
                        /\ BagCardinality(row) = Cardinality(named)

\* under a supplied vocabulary, a max_features cap and a min_df above the
\* document frequency of a supplied name, fit_transform has emitted a row
\* that carries the supplied id 2 and drops a feature the mapping lacks
C15_Witness ==
    /\ vocabulary.set
    /\ max_features.set
    /\ \E i \in DOMAIN calls :
        /\ calls[i].op = "fit_transform"
        /\ \E fn \in DOMAIN vocabulary.val :
            ~AtLeast(DF(calls[i].corpus, fn), DocCount(min_df, Len(calls[i].corpus)))
        /\ \E r \in DOMAIN calls[i].rows :
            /\ \E e \in DOMAIN calls[i].rows[r] : e[1] = 2
            /\ DOMAIN InstanceCnt(calls[i].corpus, r) \ DOMAIN vocabulary.val # {}

----------------------------------------------------------------------------
\* the number of instances of a corpus that show a feature
InstanceFrequency(corpus, fn) ==
    Cardinality({r \in DOMAIN Instances(corpus) : fn \in DOMAIN InstanceCnt(corpus, r)})

(* C20: the document frequency a fitting pass computes for a feature is the *)
(* number of documents of the corpus in which the feature occurs at least   *)
(* once: a feature of several instances of one document counts 1 for that  *)
(* document, and no document frequency exceeds the number of documents.     *)
C20_DocumentFrequencyCountsDocuments ==
    \A i \in DOMAIN calls :
        calls[i].fitted =>
            /\ DOMAIN calls[i].vocab_df = CorpusNames(calls[i].corpus)
            /\ \A fn \in DOMAIN calls[i].vocab_df :
                /\ calls[i].vocab_df[fn] = DF(calls[i].corpus, fn)
                /\ calls[i].vocab_df[fn] >= 1
                /\ calls[i].vocab_df[fn] <= Len(calls[i].corpus)

\* a fitting pass over two documents counted 2 for a feature that occurs in
\* three of their instances, and 1 for a feature of one document
C20_Witness ==
    \E i \in DOMAIN calls :
        /\ calls[i].fitted
        /\ Len(calls[i].corpus) = 2
        /\ \E fn, gn \in DOMAIN calls[i].vocab_df :
            /\ calls[i].vocab_df[fn] = 2
            /\ InstanceFrequency(calls[i].corpus, fn) = 3
            /\ calls[i].vocab_df[gn] = 1

----------------------------------------------------------------------------
(* Vocabulary of the properties of the label extractor *)

\* the labels of a corpus, in the order the documents give them
Labels(corpus) == CorpusLabels(corpus, 1)

\* the place of the first occurrence of a label in a corpus
FirstSeen(corpus, lab) ==
    CHOOSE n \in DOMAIN Labels(corpus) :
        /\ Labels(corpus)[n] = lab
        /\ \A m \in DOMAIN Labels(corpus) : Labels(corpus)[m] = lab => n <= m

\* the labels of a corpus other than the unknown label
OtherLabels(corpus) ==
    {Labels(corpus)[n] : n \in DOMAIN Labels(corpus)} \ {unknown_label}

(* C16: with no labelset supplied, fit succeeds on every corpus, an empty   *)
(* one included, and the labelset it learns and stores maps the unknown     *)
(* label to 0 and every other label of the corpus to 1 plus the number of   *)
(* other labels first met before it: distinct ids >= 1 in first-encounter   *)
(* order.                                                                   *)
C16_UnknownLabelIsZero ==
    \A i \in DOMAIN label_calls :
        (label_calls[i].op = "fit" /\ ~labelset.set) =>
            LET corpus == label_calls[i].corpus
                learned == label_calls[i].learned
            IN  /\ label_calls[i].pc = "returned"
                /\ learned.set
                /\ Len(label_calls) = 1 => labelset_ = learned
                /\ DOMAIN learned.val = {unknown_label} \cup OtherLabels(corpus)
                /\ learned.val[unknown_label] = 0
                /\ \A lab \in OtherLabels(corpus) :
                       learned.val[lab] =
                           1 + Cardinality({l \in OtherLabels(corpus) :
                                   FirstSeen(corpus, l) < FirstSeen(corpus, lab)})

\* fit has learned a labelset from two documents whose first label is not
\* the unknown label and which repeat a label
C16_Witness ==
    \E i \in DOMAIN label_calls :
        /\ label_calls[i].op = "fit"
        /\ ~labelset.set
        /\ label_calls[i].learned.set
        /\ Cardinality(DOMAIN label_calls[i].learned.val) = 4
        /\ Len(Labels(label_calls[i].corpus)) = 4
        /\ labelset_ = label_calls[i].learned

\* the frozen labelset a transform finds when its body begins: the one
\* stored by an earlier call, or else the one supplied at construction
FrozenLabelset(i) ==
    IF label_calls[i].before.set THEN label_calls[i].before.val ELSE labelset.val

HasFrozenLabelset(i) ==
    /\ label_calls[i].before.set \/ labelset.set
    /\ DOMAIN FrozenLabelset(i) # {}

\* the id a frozen labelset gives a label
FrozenId(labs, lab) ==
    IF lab \in DOMAIN labs THEN labs[lab]
    ELSE IF unknown_label \in DOMAIN labs THEN labs[unknown_label]
    ELSE -1

(* C17: under a frozen labelset, transform raises nothing and yields one    *)
(* label id per instance, in instance order: the id of the label when the   *)
(* labelset holds it, the id of the unknown label otherwise; when the       *)
(* sequence ends it has yielded as many ids as the corpus has labels.       *)
C17_OneLabelIdPerInstance ==
    \A i \in DOMAIN label_calls :
        (/\ label_calls[i].op = "transform"
         /\ label_calls[i].pc # "created"
         /\ HasFrozenLabelset(i))
        => /\ label_calls[i].pc # "raised"
           /\ Len(label_calls[i].labs) <= Len(Labels(label_calls[i].corpus))
           /\ \A n \in DOMAIN label_calls[i].labs :
                label_calls[i].labs[n] =
                    FrozenId(FrozenLabelset(i), Labels(label_calls[i].corpus)[n])
           /\ label_calls[i].pc = "done" =>
                Len(label_calls[i].labs) = Len(Labels(label_calls[i].corpus))

(* C18: with a non-empty labelset supplied at construction, no call of fit, *)
(* fit_transform or transform raises, and the labelset in use holds the     *)
(* unknown label with id 0.                                                 *)
C18_SuppliedLabelsetLookupsSucceed ==
    \A i \in DOMAIN label_calls :
        (/\ labelset.set
         /\ DOMAIN labelset.val # {}
         /\ label_calls[i].pc # "created")
        => /\ label_calls[i].pc # "raised"
           /\ labelset_.set
           /\ unknown_label \in DOMAIN labelset_.val
           /\ labelset_.val[unknown_label] = 0

----------------------------------------------------------------------------
\* the string form of the string and tuple values tried: the string itself
\* (with a non-breaking space folded to a space), Python's str() of a tuple
StringForm(v) ==
    CASE v = Tup(<<>>)                -> "()"
      [] v = Tup(<<"a">>)             -> "('a',)"
      [] v = Tup(<<"a", "b">>)        -> "('a', 'b')"
      [] v = Uni(<<"N", "N">>)        -> "NN"
      [] v = Uni(<<"a", NBSP, "b">>)  -> "a b"
      [] v.kind = "str"               -> v.str

(* C19: the one-hot encoding of a pair (name, value) is decided by the kind *)
(* of the value: a numeric value is emitted unchanged as (name, value); a   *)
(* string or tuple value is emitted as (name + separator + string form of   *)
(* the value, 1), with the configured separator.                            *)
C19_OneHotByKind ==
    oh_feats # <<>> =>
        LET f == oh_pair[1]
            v == oh_pair[2]
            sep == oh_pair[3]
        IN  /\ Len(oh_feats) = 1
            /\ IF v.kind = "num"
               THEN oh_feats[1] = <<f, v.num>>
               ELSE oh_feats[1] = <<f \o sep \o StringForm(v), 1>>

\* a pair whose value is a tuple of two strings has been encoded with the
\* default separator
C19_Witness ==
    /\ oh_feats # <<>>
    /\ oh_pair[2] = Tup(<<"a", "b">>)
    /\ oh_pair[3] = "="
    /\ oh_feats[1] = <<oh_pair[1] \o "=('a', 'b')", 1>>

----------------------------------------------------------------------------
\* the place of a raw pair in the traversal of a corpus: document, instance,
\* then EDU1, EDU2 and pair features, each in the order of its extractor
GroupRank(g) == CASE g = "EDU1" -> 1 [] g = "EDU2" -> 2 [] OTHER -> 3

EmissionPlaces(corpus, fn) ==
    UNION {UNION {{((d * 10 + k) * 10 + GroupRank(z[1])) * 10 + z[2] :
                      z \in {y \in RawPairs(DocAt(corpus, d), DocAt(corpus, d).edu_pairs[k]) :
                                OneHotName(y[3], y[4], separator) = fn}} :
                  k \in DOMAIN DocAt(corpus, d).edu_pairs} :
           d \in DOMAIN corpus}

\* the place where a feature is first emitted
FirstEmission(corpus, fn) ==
    CHOOSE n \in EmissionPlaces(corpus, fn) :
        \A m \in EmissionPlaces(corpus, fn) : n <= m

(* C21: the raw vocabulary numbers the features in the order in which the   *)
(* traversal of the corpus (documents, then instances, then the emission    *)
(* order of the extractors) first meets them; for the two instances         *)
(* [(len, 3), (pos, NN)] and [(len, 5), (pos, NN)] with separator "=" the   *)
(* vocabulary is {len: 0, pos=NN: 1} and the rows are {(0, 3), (1, 1)} and  *)
(* {(0, 5), (1, 1)}.                                                        *)
C21_IdsInFirstEncounterOrder ==
    \A i \in DOMAIN calls :
        calls[i].fitted =>
            /\ \A a, b \in DOMAIN calls[i].raw :
                FirstEmission(calls[i].corpus, a) < FirstEmission(calls[i].corpus, b)
                    => calls[i].raw[a] < calls[i].raw[b]
            /\ (calls[i].corpus = <<"LenPos">> /\ calls[i].removed_feats = {}) =>
                /\ calls[i].vocabulary = ("len" :> 0) @@ ("pos=NN" :> 1)
                /\ 1 \in DOMAIN calls[i].rows =>
                       calls[i].rows[1] = SetToBag({<<0, 3>>, <<1, 1>>})
                /\ 2 \in DOMAIN calls[i].rows =>
                       calls[i].rows[2] = SetToBag({<<0, 5>>, <<1, 1>>})

----------------------------------------------------------------------------
\* the EDUs that occur in a sequence of pairs, as first or second member
Units(pairs) == {pairs[k][1] : k \in DOMAIN pairs} \cup {pairs[k][2] : k \in DOMAIN pairs}

(* C22: at every point of a call of _extract_feature_vectors, and at its    *)
(* return, sing_extract has been invoked exactly once for every EDU that    *)
(* occurred in a pair gone through, as first or second member, and never    *)
(* for another; the cache holds the features of this document's EDUs only,  *)
(* whatever earlier calls cached.                                           *)
C22_SingleUnitExtractedOnce ==
    ef_pc \in {"running", "returned"} =>
        /\ \A e \in EDUs :
            sing_extract_calls[e] = IF e \in Units(pairs_done) THEN 1 ELSE 0
        /\ DOMAIN sf_cache = Units(pairs_done)
        /\ \A e \in DOMAIN sf_cache : sf_cache[e] = dict(Documents[ef_doc].sing[e])

\* a second call has returned after three pairs that all hold EDU 1, as first
\* and as second member; an earlier call had cached EDU 1 of this document
C22_Witness ==
    /\ ef_pc = "returned"
    /\ ef_calls = 2
    /\ Len(pairs_done) = 3
    /\ pairs_done[1][1] = 1
    /\ pairs_done[2][2] = 1
    /\ 1 \in {pairs_done[3][1], pairs_done[3][2]}
    /\ <<ef_doc, 1>> \in earlier
    /\ sing_extract_calls[1] = 1

----------------------------------------------------------------------------
\* the entries a row must hold for the r-th instance of a corpus under voc
Expected(voc, corpus, r) ==
    LET cnt == InstanceCnt(corpus, r)
    IN  {<<voc[fn], cnt[fn]>> : fn \in DOMAIN cnt \cap DOMAIN voc}

\* the rows yielded so far are those of the first instances of the corpus, in
\* the order of the documents and of the instances within each document, an
\* empty row for an instance without a feature of the vocabulary; a sequence
\* that has ended has yielded one row for every instance
C23_RowsFollowInstances ==
    \A i \in DOMAIN calls :
        calls[i].pc \in {"yielded", "done"} =>
            /\ Len(calls[i].rows) <= Len(Instances(calls[i].corpus))
            /\ calls[i].pc = "done" =>
                   Len(calls[i].rows) = Len(Instances(calls[i].corpus))
            /\ \A r \in DOMAIN calls[i].rows :
                   /\ DOMAIN calls[i].rows[r] =
                          Expected(calls[i].vocabulary, calls[i].corpus, r)
                   /\ \A e \in DOMAIN calls[i].rows[r] : calls[i].rows[r][e] = 1

\* a sequence that has yielded a row, and whose rows keep being requested,
\* ends
C23_SequenceEnds ==
    \A i \in 1..MaxCalls :
        (IF i \in DOMAIN calls THEN calls[i].pc = "yielded" ELSE FALSE)
            ~> (IF i \in DOMAIN calls THEN calls[i].pc = "done" ELSE FALSE)

(* C23: over a finite corpus, the row sequence of fit_transform or          *)
(* transform under a vocabulary ends after exactly one row per instance:    *)
(* rows come in document order and, within a document, in generator order,  *)
(* and an instance without a feature of the vocabulary yields an empty row. *)
C23_OneRowPerInstanceThenEnd == []C23_RowsFollowInstances /\ C23_SequenceEnds

\* a sequence over two documents has ended after four rows, one of them empty
C23_Witness ==
    \E i \in DOMAIN calls :
        /\ calls[i].pc = "done"
        /\ Len(calls[i].corpus) = 2
        /\ Len(calls[i].rows) = 4
        /\ \E r \in DOMAIN calls[i].rows : calls[i].rows[r] = EmptyBag
        /\ \E r \in DOMAIN calls[i].rows : calls[i].rows[r] # EmptyBag

----------------------------------------------------------------------------
RECURSIVE Emissions(_, _)
\* what the vectors from vector i on emit, one after the other
Emissions(vectors, i) ==
    IF i > Len(vectors) THEN <<>> ELSE vectors[i] \o Emissions(vectors, i + 1)

\* the features emitted before the first emission of feature f
EmittedBefore(vectors, f) ==
    LET em == Emissions(vectors, 1)
        first == CHOOSE j \in DOMAIN em :
                     em[j][1] = f /\ \A k \in 1..(j - 1) : em[k][1] # f
    IN  {em[k][1] : k \in 1..(first - 1)}

\* the row of a vector under voc: its emissions that voc names, in order
KeyGroupRow(voc, vec) ==
    LET named == SelectSeq(vec, LAMBDA p : p[1] \in DOMAIN voc)
    IN  [j \in 1..Len(named) |-> <<voc[named[j][1]], named[j][2]>>]

(* C24: a call of a KeyGroupVectorizer that returns gives one row per input *)
(* vector, in input order, made of the (vocabulary[feature], value) pairs   *)
(* of the vector's emissions in emission order.  fit_transform names every  *)
(* emitted feature, with the number of features met before it as id;        *)
(* transform under a fitted vocabulary raises nothing, leaves out the       *)
(* features the vocabulary does not name and leaves the vocabulary as it    *)
(* was.                                                                     *)
C24_KeyGroupRowsAndIds ==
    /\ (kg_call.op = "fit_transform" /\ kg_call.err = "") =>
        /\ kg_vocabulary_.set
        /\ DOMAIN kg_vocabulary_.val =
               {Emissions(kg_call.vectors, 1)[j][1] :
                    j \in DOMAIN Emissions(kg_call.vectors, 1)}
        /\ \A f \in DOMAIN kg_vocabulary_.val :
               kg_vocabulary_.val[f] = Cardinality(EmittedBefore(kg_call.vectors, f))
        /\ Len(kg_call.X) = Len(kg_call.vectors)
        /\ \A i \in DOMAIN kg_call.X :
               kg_call.X[i] = KeyGroupRow(kg_vocabulary_.val, kg_call.vectors[i])
    /\ (kg_call.op = "transform" /\ kg_call.before.set) =>
        /\ kg_call.err = ""
        /\ kg_vocabulary_ = kg_call.before
        /\ Len(kg_call.X) = Len(kg_call.vectors)
        /\ \A i \in DOMAIN kg_call.X :
               kg_call.X[i] = KeyGroupRow(kg_call.before.val, kg_call.vectors[i])

\* a transform under a fitted vocabulary has returned two rows, one of them
\* for a vector that emits a feature the vocabulary names and one it does not
C24_Witness ==
    /\ kg_call.op = "transform"
    /\ kg_call.before.set
    /\ Len(kg_call.X) = 2
    /\ \E i \in DOMAIN kg_call.vectors :
        /\ \E j \in DOMAIN kg_call.vectors[i] :
               kg_call.vectors[i][j][1] \notin DOMAIN kg_call.before.val
        /\ kg_call.X[i] # <<>>
        /\ Len(kg_call.X[i]) < Len(kg_call.vectors[i])

----------------------------------------------------------------------------
\* the step is one of a transform: the call is made, or its generator runs
TransformStep ==
    \E i \in DOMAIN calls' :
        /\ calls'[i].op = "transform"
        /\ i \in DOMAIN calls => calls'[i] # calls[i]

(* C25: once vocabulary_ exists, no step of a transform changes it, names   *)
(* or ids: not the call, not the first request of a row, not a later one,   *)
(* whatever the corpus and however far the sequence is consumed.            *)
C25_TransformKeepsVocabulary ==
    [][(vocabulary_.set /\ TransformStep) => vocabulary_' = vocabulary_]_vars

\* a transform over a corpus with a feature the stored vocabulary does not
\* name has yielded a row and not ended; the vocabulary is the one it found
C25_Witness ==
    \E i \in DOMAIN calls :
        /\ calls[i].op = "transform"
        /\ calls[i].pc = "yielded"
        /\ calls[i].before.set
        /\ CorpusNames(calls[i].corpus) \ DOMAIN calls[i].before.val # {}
        /\ vocabulary_ = calls[i].before

----------------------------------------------------------------------------
\* the step in which generator i yields its first row or ends without one:
\* its rows will be encoded against the vocabulary_ stored by then
FirstRowUsesStored(i) ==
    (calls[i].pc = "created" /\ calls'[i].pc \in {"yielded", "done"}) =>
        /\ vocabulary_'.set
        /\ calls'[i].vocabulary = vocabulary_'.val
        /\ \A r \in DOMAIN calls'[i].rows :
               DOMAIN calls'[i].rows[r] = Expected(vocabulary_'.val, calls[i].corpus, r)

\* a step taken while generator i is suspended at a yield: the mapping it
\* uses and the rows it has yielded stay as they are, and a row it yields in
\* this step is encoded against that mapping, whatever vocabulary_ is by now
LaterRowsUseSame(i) ==
    calls[i].pc = "yielded" =>
        /\ calls'[i].vocabulary = calls[i].vocabulary
        /\ \A r \in DOMAIN calls[i].rows : calls'[i].rows[r] = calls[i].rows[r]
        /\ \A r \in DOMAIN calls'[i].rows \ DOMAIN calls[i].rows :
               DOMAIN calls'[i].rows[r] =
                   Expected(calls[i].vocabulary, calls[i].corpus, r)

(* C26: when the row sequences of several calls on one vectorizer are       *)
(* consumed interleaved, all rows of a call are encoded against one         *)
(* vocabulary, the vocabulary_ stored when the call's first row is          *)
(* requested; a fit_transform that replaces vocabulary_ afterwards changes  *)
(* neither the ids of the rows still to come nor the mapping in use.        *)
C26_OneVocabularyPerSequence ==
    [][\A i \in DOMAIN calls : FirstRowUsesStored(i) /\ LaterRowsUseSame(i)]_vars

\* a sequence of two rows or more has ended after a fit_transform, begun
\* while the sequence was under way, replaced its vocabulary by one that
\* gives a feature of its rows another id
C26_Witness ==
    \E i, j \in DOMAIN calls :
        /\ calls[i].pc = "done"
        /\ Len(calls[i].rows) >= 2
        /\ calls[j].op = "fit_transform"
        /\ calls[j].fitted
        /\ i \notin calls[j].after
        /\ calls[j].before = Some(calls[i].vocabulary)
        /\ vocabulary_ = Some(calls[j].vocabulary)
        /\ \E f \in DOMAIN calls[i].vocabulary \cap DOMAIN calls[j].vocabulary :
               calls[i].vocabulary[f] # calls[j].vocabulary[f]

----------------------------------------------------------------------------
\* the errors a fit_transform with no vocabulary supplied can fail with
FitErrors ==
    {"ValueError: empty vocabulary",
     ThresholdError,
     "NotImplementedError"}

\* the step in which a fit_transform of the DocumentCountVectorizer fails
FitTransformFails(i) ==
    /\ calls[i].op = "fit_transform"
    /\ ~vocabulary.set
    /\ calls[i].pc # "raised"
    /\ calls'[i].pc = "raised"

\* the step is a fit_transform of the KeyGroupVectorizer that fails
KeyGroupFitTransformFails ==
    /\ kg_calls' = kg_calls + 1
    /\ kg_call'.op = "fit_transform"
    /\ kg_call'.err # ""

(* C27: a fit_transform with no vocabulary supplied that fails (empty       *)
(* vocabulary, max_df below min_df, max_features set) leaves vocabulary_    *)
(* as it was, a fitted one unchanged and an absent one absent, and has      *)
(* emitted no row; so does a fit_transform of a KeyGroupVectorizer that     *)
(* fails on an empty vocabulary.                                            *)
C27_FailedFitKeepsVocabulary ==
    [][/\ \A i \in DOMAIN calls :
            FitTransformFails(i) =>
                /\ calls'[i].err \in FitErrors
                /\ vocabulary_' = vocabulary_
                /\ calls'[i].rows = <<>>
       /\ KeyGroupFitTransformFails =>
            /\ kg_call'.err = "ValueError: empty vocabulary"
            /\ kg_vocabulary_' = kg_vocabulary_
            /\ kg_call'.X = <<>>]_vars

\* a fit_transform has failed on a vectorizer that held a fitted vocabulary,
\* which it still holds
C27_Witness ==
    \E i \in DOMAIN calls :
        /\ calls[i].op = "fit_transform"
        /\ ~vocabulary.set
        /\ calls[i].pc = "raised"
        /\ calls[i].err = ThresholdError
        /\ calls[i].before.set
        /\ DOMAIN calls[i].before.val # {}
        /\ vocabulary_ = calls[i].before
        /\ calls[i].rows = <<>>

----------------------------------------------------------------------------
\* the errors that report an empty labelset
EmptyLabelsetErrors ==
    {"ValueError: empty labelset", "ValueError: Empty labelset",
     "ValueError: empty labelset passed to fit"}

(* C28: with no labelset supplied no call ever fails with an empty-labelset *)
(* error: fit returns for every corpus, an empty one included, the labelset *)
(* it learns holds the unknown label, and so does every labelset stored;    *)
(* an empty-labelset error is raised only on an extractor constructed with  *)
(* an empty labelset.                                                       *)
C28_EmptyLabelsetOnlyIfSupplied ==
    /\ \A i \in DOMAIN label_calls :
        label_calls[i].err \in EmptyLabelsetErrors =>
            (labelset.set /\ DOMAIN labelset.val = {})
    /\ ~labelset.set =>
        /\ labelset_.set => unknown_label \in DOMAIN labelset_.val
        /\ \A i \in DOMAIN label_calls :
            label_calls[i].op = "fit" =>
                /\ label_calls[i].pc = "returned"
                /\ label_calls[i].err = ""
                /\ label_calls[i].learned.set
                /\ unknown_label \in DOMAIN label_calls[i].learned.val

\* with no labelset supplied, fit has returned for an empty corpus and the
\* labelset stored holds the unknown label alone
C28_Witness ==
    \E i \in DOMAIN label_calls :
        /\ label_calls[i].op = "fit"
        /\ ~labelset.set
        /\ label_calls[i].corpus = <<>>
        /\ label_calls[i].pc = "returned"
        /\ labelset_ = Some(unknown_label :> 0)

====
